---- MODULE Spec2Model ----
(***************************************************************************)
(* A model of the replication substrate of automerge: the backend API of   *)
(* src/src/automerge.ts (init, apply, applyChanges, applyLocalChange,       *)
(* loadChanges, makePatch, getHeads, getAllChanges, getChangeByHash,        *)
(* merge) over an OpSet, and the Connection of src/src/connection.js over   *)
(* a DocSet, driven by the transport of src/test/connection_new_test.js.    *)
(*                                                                         *)
(* The OpSet (op_set.js), the columnar codec, the Frontend and the DocSet   *)
(* are not among the source files; they are modelled from spec.md           *)
(* (sections 3, 4.1, 4.2, 4.4, 4.5).                                       *)
(***************************************************************************)
EXTENDS Integers, Sequences, FiniteSets, TLC

(***************************************************************************)
(* Bounds of the model.                                                    *)
(***************************************************************************)
MaxChanges == 3    \* changes ever created (size of the universe of changes)
MaxOps == 2        \* ops in one change
MaxBatch == 2      \* changes handed to one applyChanges / loadChanges call
MaxQueue == 2      \* parked changes a backend may hold
MaxObjectOps == 6  \* ops that make, fill or unlink nested objects
MaxInserts == 4    \* insertions into the list
MaxDepth == 5      \* deliveries nested in one another before the stack is exhausted

Replicas == {"L", "R"}
Actors == {"L", "R"}
Keys == {"swallows", "wrens"}
Values == {13, 42}
\* What each actor writes (the offline tests: L sets swallows to 13, R to 42).
ValueOf(a) == IF a = "L" THEN 13 ELSE 42
\* The key the i-th edit of a change callback touches.
KeyAt(i) == IF i % 2 = 1 THEN "swallows" ELSE "wrens"
ROOT_ID == "_root"
undefined == "undefined"   \* an absent actor id; an absent hash or seq is 0
NoErr == "ok"

\* The actor id of the document a replica edits (the tests name the actors
\* after the peers: from({}, 'L'), from({}, 'R')).
ActorOf(r) == r

\* Byte-lexicographic order of the actor ids: "L" < "R".
ActorRank(a) == IF a = "L" THEN 1 ELSE 2

\* OpId = <<counter, actor>>: by counter, ties broken by the actor id.
OpIdLess(a, b) ==
  \/ a[1] < b[1]
  \/ a[1] = b[1] /\ ActorRank(a[2]) < ActorRank(b[2])

Range(s) == {s[i] : i \in DOMAIN s}

Max(a, b) == IF a >= b THEN a ELSE b

SeqsUpTo(S, n) == UNION {[1..k -> S] : k \in 0..n}

VARIABLES
  changes,   \* the universe of encoded changes: changes[h] is the change of hash h
  docSet,    \* docSet[r][docId]: the document (frontend state and backend handle) or none (<<>>)
  conn,      \* conn[r]: the Connection of replica r to its peer and its place on the channel
  lists,     \* the list object of the documents: the insertions made, and for each
             \* replica the ones it has applied and the order of its elements
  objects,   \* the nested objects of the documents: the ops made on them, and for
             \* each replica the references at the root and the objects it holds
  last       \* the last API call: its name and replica, the error it raised, the clock of
             \* the patch it returned, what its batch repeated and how many parked
             \* changes it applied

vars == <<changes, docSet, conn, lists, objects, last>>

(***************************************************************************)
(* Changes and their hashes.  A change is identified by the digest of its  *)
(* encoding; the model keeps every encoded change in `changes` and uses    *)
(* its position as the digest, so that equal contents have equal hashes    *)
(* and different contents different ones.                                  *)
(***************************************************************************)
Hashes == 1..MaxChanges

hashOf(chs, c) ==
  IF \E h \in DOMAIN chs : chs[h] = c
  THEN CHOOSE h \in DOMAIN chs : chs[h] = c
  ELSE Len(chs) + 1

encodeChange(chs, c) ==
  IF \E h \in DOMAIN chs : chs[h] = c THEN chs ELSE Append(chs, c)

lowest(S) == CHOOSE x \in S : \A y \in S : x <= y

\* The canonical order of a document: topological, ties by hash ascending.
\* A change whose deps are not among those encoded can never be placed and
\* is left out.
RECURSIVE canonical(_, _, _)
canonical(chs, todo, done) ==
  IF \A h \in todo : ~(chs[h].deps \subseteq Range(done)) THEN done
  ELSE canonical(chs,
                 todo \ {lowest({h \in todo : chs[h].deps \subseteq Range(done)})},
                 Append(done, lowest({h \in todo : chs[h].deps \subseteq Range(done)})))

\* encodeDocument: the changes themselves, in the canonical order.
encodeDocument(chs, binaryChanges) ==
  [i \in 1..Len(canonical(chs, Range(binaryChanges), <<>>)) |->
     chs[canonical(chs, Range(binaryChanges), <<>>)[i]]]

\* decodeChanges of a document: the changes it holds, in its order.
decodeChanges(data) == data

\* decodeChanges([data]).map(encodeChange): each change is encoded again,
\* which gives it its hash.
encodeAll(chs, decoded) == [i \in 1..Len(decoded) |-> hashOf(chs, decoded[i])]

(***************************************************************************)
(* OpSet: the state engine (spec.md 4.1, 4.2).                             *)
(***************************************************************************)
OpSetInit ==
  [ states   |-> [a \in Actors |-> <<>>],
    history  |-> <<>>,
    deps     |-> {},
    maxOp    |-> 0,
    queue    |-> <<>>,
    byObject |-> [k \in Keys |-> {}] ]

hashesOf(opSet) == Range(opSet.history)

getChangeByHashOpSet(opSet, h) == IF h \in hashesOf(opSet) THEN h ELSE 0

getHeadsOpSet(opSet) == opSet.deps

causallyReady(opSet, c) == \A d \in c.deps : d \in hashesOf(opSet)

\* A faulty applyAssign: the last assignment to arrive replaces the others,
\* whatever its pred.
applyAssignLWW(active, op, opId) ==
  IF op.action = "del" THEN {} ELSE {[opId |-> opId, value |-> op.value]}

\* An inc adds its value to the counters named in its pred that are active.
incremented(active, op) ==
  {IF x.opId \in op.pred THEN [x EXCEPT !.value = @ + op.value] ELSE x : x \in active}

\* A faulty applyAssign: an inc counts only on a counter of its own actor.
applyAssignOwnInc(active, op, opId) ==
  IF op.action = "inc"
  THEN {IF x.opId \in op.pred /\ x.opId[2] = opId[2]
        THEN [x EXCEPT !.value = @ + op.value] ELSE x : x \in active}
  ELSE {x \in active : x.opId \notin op.pred}
         \cup (IF op.action = "del" THEN {} ELSE {[opId |-> opId, value |-> op.value]})

\* A faulty applyAssign: a del clears the key, whatever its pred.
applyAssignDelAll(active, op, opId) ==
  IF op.action = "inc" THEN incremented(active, op)
  ELSE IF op.action = "del" THEN {}
  ELSE {x \in active : x.opId \notin op.pred} \cup {[opId |-> opId, value |-> op.value]}

\* One op on a map key: an inc adds to the counters named in pred; otherwise
\* the assignments named in pred leave the active set and the op joins it
\* unless it is a del.
applyAssign(active, op, opId) ==
  IF op.action = "inc" THEN incremented(active, op)
  ELSE {x \in active : x.opId \notin op.pred}
         \cup (IF op.action = "del" THEN {} ELSE {[opId |-> opId, value |-> op.value]})

applyOp(byObject, op, opId) ==
  [byObject EXCEPT ![op.key] = applyAssign(@, op, opId)]

RECURSIVE applyOps(_, _, _, _, _)
applyOps(byObject, ops, i, startOp, actor) ==
  IF i > Len(ops) THEN byObject
  ELSE applyOps(applyOp(byObject, ops[i], <<startOp + i - 1, actor>>),
                ops, i + 1, startOp, actor)

touchedKeys(c) == {c.ops[i].key : i \in DOMAIN c.ops}

\* The OpSet operations thread an accumulator: the OpSet, the keys whose
\* assignments the call has changed so far (the diffs being built), and the
\* error raised, if any.  Once an error is raised nothing more is applied.
Acc(opSet) == [opSet |-> opSet, touched |-> {}, err |-> NoErr]

Raise(acc, e) == [acc EXCEPT !.err = e]

\* A faulty applyChange: a change whose seq was already applied is skipped
\* without a look at which change it is.
applyChangeIgnore(chs, acc, h) ==
  IF chs[h].seq <= Len(acc.opSet.states[chs[h].actor]) THEN acc
  ELSE IF chs[h].seq # Len(acc.opSet.states[chs[h].actor]) + 1
  THEN Raise(acc, "InvalidSequence")
  ELSE [acc EXCEPT
          !.opSet.states[chs[h].actor] = Append(@, h),
          !.opSet.history = Append(@, h),
          !.opSet.deps = (@ \ chs[h].deps) \cup {h},
          !.opSet.maxOp = Max(@, chs[h].startOp + Len(chs[h].ops) - 1),
          !.opSet.byObject = applyOps(@, chs[h].ops, 1, chs[h].startOp, chs[h].actor),
          !.touched = @ \cup touchedKeys(chs[h])]

\* Applies the change of hash h: a change of an actor's next seq is absorbed;
\* one whose seq was already applied is skipped when it is the same change and
\* is an error when it is another change.
applyChange(chs, acc, h) ==
  LET c == chs[h]
      prior == acc.opSet.states[c.actor]
  IN IF c.seq <= Len(prior)
     THEN IF prior[c.seq] # h THEN Raise(acc, "DuplicateSeq") ELSE acc
     ELSE IF c.seq # Len(prior) + 1
     THEN Raise(acc, "InvalidSequence")
     ELSE [acc EXCEPT
             !.opSet.states[c.actor] = Append(@, h),
             !.opSet.history = Append(@, h),
             !.opSet.deps = (@ \ c.deps) \cup {h},
             !.opSet.maxOp = Max(@, c.startOp + Len(c.ops) - 1),
             !.opSet.byObject = applyOps(@, c.ops, 1, c.startOp, c.actor),
             !.touched = @ \cup touchedKeys(c)]

\* One pass over the parked changes `rest`: each one whose deps are all applied
\* is applied, the others are parked again.
RECURSIVE queuePass(_, _, _)
queuePass(chs, acc, rest) ==
  IF rest = <<>> \/ acc.err # NoErr THEN acc
  ELSE queuePass(chs,
                 IF causallyReady(acc.opSet, chs[Head(rest)])
                 THEN applyChange(chs, acc, Head(rest))
                 ELSE [acc EXCEPT !.opSet.queue = Append(@, Head(rest))],
                 Tail(rest))

\* Passes over the queue are repeated until one applies nothing.
RECURSIVE applyQueuedOps(_, _)
applyQueuedPass(chs, acc, p) ==
  IF p.err # NoErr \/ Len(p.opSet.queue) = Len(acc.opSet.queue) THEN p
  ELSE applyQueuedOps(chs, p)

applyQueuedOps(chs, acc) ==
  applyQueuedPass(chs, acc,
                  queuePass(chs, [acc EXCEPT !.opSet.queue = <<>>], acc.opSet.queue))

\* A change from storage or from a peer: parked, then everything ready is applied.
addChange(chs, acc, h) ==
  applyQueuedOps(chs, [acc EXCEPT !.opSet.queue = Append(@, h)])

\* A change made by the local application is applied directly.
addLocalChange(chs, acc, h) == applyChange(chs, acc, h)

\* The deps of parked changes and the given heads that are not applied, less
\* the hashes that are parked themselves.
getMissingDepsOpSet(chs, opSet, heads) ==
  ((UNION {chs[h].deps : h \in Range(opSet.queue)} \cup heads) \ hashesOf(opSet))
    \ Range(opSet.queue)

\* The hashes reached from those on the stack by following deps backwards.
RECURSIVE seenFrom(_, _, _)
seenFrom(chs, stack, seen) ==
  IF stack = {} THEN seen
  ELSE LET h == CHOOSE x \in stack : TRUE
       IN IF h \in seen THEN seenFrom(chs, stack \ {h}, seen)
          ELSE seenFrom(chs, (stack \ {h}) \cup chs[h].deps, seen \cup {h})

\* The history without what is reachable from haveDeps, in history order.
notSeen(history, seen) == SelectSeq(history, LAMBDA h : h \notin seen)

\* OpSet.getMissingChanges(opSet, haveDeps): the applied changes that are not
\* reachable from haveDeps; a hash of haveDeps that is not applied is an error.
getMissingChangesOpSet(chs, opSet, haveDeps) ==
  IF ~(haveDeps \subseteq hashesOf(opSet))
  THEN [err |-> "hash not found", changes |-> <<>>]
  ELSE [err |-> NoErr, changes |-> notSeen(opSet.history, seenFrom(chs, haveDeps, {}))]

(***************************************************************************)
(* The backend API (src/src/automerge.ts, the Immutable.js data            *)
(* structures: USE_NEW_BACKEND = false).  A backend handle is              *)
(* {state, heads}; state holds the OpSet.                                  *)
(***************************************************************************)
numHashesByActor(state, actorId) == Len(state.opSet.states[actorId])

\* A faulty hashByActor: past the end it gives the actor's latest hash.
hashByActorLatest(state, actorId, index) ==
  IF state.opSet.states[actorId] = <<>> THEN 0
  ELSE IF index + 1 \in DOMAIN state.opSet.states[actorId]
  THEN state.opSet.states[actorId][index + 1]
  ELSE state.opSet.states[actorId][Len(state.opSet.states[actorId])]

\* The hash at a zero-based index of the actor's changes, or undefined.
hashByActor(state, actorId, index) ==
  IF index + 1 \in DOMAIN state.opSet.states[actorId]
  THEN state.opSet.states[actorId][index + 1]
  ELSE 0

init == [state |-> [opSet |-> OpSetInit], heads |-> {}]

\* request = null
NoRequest == [local |-> FALSE, actor |-> undefined, seq |-> 0]

emptyDiff == [objectId |-> ROOT_ID, type |-> "map", props |-> [k \in {} |-> {}]]

\* What a call that threw returns in place of a patch.
NoPatch ==
  [clock |-> [a \in Actors |-> 0], deps |-> {}, diffs |-> emptyDiff, maxOp |-> 0,
   pendingChanges |-> 0, actor |-> undefined, seq |-> 0]

\* A faulty makePatch: the clock holds the index of each actor's last change
\* rather than the number of its changes.
makePatchIndexClock(chs, state, diffs, request, isIncremental) ==
  [clock |-> [a \in Actors |-> Max(0, Len(state.opSet.states[a]) - 1)],
   deps |-> state.opSet.deps, diffs |-> diffs, maxOp |-> state.opSet.maxOp,
   pendingChanges |-> Cardinality(getMissingDepsOpSet(chs, state.opSet, {})),
   actor |-> IF isIncremental /\ request.local THEN request.actor ELSE undefined,
   seq |-> IF isIncremental /\ request.local THEN request.seq ELSE 0]

\* A faulty makePatch: maxOp is left out of the patch.
makePatchNoMaxOp(chs, state, diffs, request, isIncremental) ==
  [clock |-> [a \in Actors |-> Len(state.opSet.states[a])],
   deps |-> state.opSet.deps, diffs |-> diffs, maxOp |-> 0,
   pendingChanges |-> Cardinality(getMissingDepsOpSet(chs, state.opSet, {})),
   actor |-> IF isIncremental /\ request.local THEN request.actor ELSE undefined,
   seq |-> IF isIncremental /\ request.local THEN request.seq ELSE 0]

\* A faulty makePatch: the deps of the patch of a local change keep the
\* hash of that change.
makePatchAllHeads(chs, state, diffs, request, isIncremental) ==
  [clock |-> [a \in Actors |-> Len(state.opSet.states[a])],
   deps |-> state.opSet.deps, diffs |-> diffs, maxOp |-> state.opSet.maxOp,
   pendingChanges |-> Cardinality(getMissingDepsOpSet(chs, state.opSet, {})),
   actor |-> IF isIncremental /\ request.local THEN request.actor ELSE undefined,
   seq |-> IF isIncremental /\ request.local THEN request.seq ELSE 0]

makePatch(chs, state, diffs, request, isIncremental) ==
  LET clock == [a \in Actors |-> Len(state.opSet.states[a])]
      deps == state.opSet.deps
      maxOp == state.opSet.maxOp
      pendingChanges == Cardinality(getMissingDepsOpSet(chs, state.opSet, {}))
  IN IF isIncremental /\ request.local
     THEN LET lastHash == hashByActor(state, request.actor, request.seq - 1) IN
          [clock |-> clock, deps |-> deps \ {lastHash}, diffs |-> diffs, maxOp |-> maxOp,
           pendingChanges |-> pendingChanges, actor |-> request.actor, seq |-> request.seq]
     ELSE [clock |-> clock, deps |-> deps, diffs |-> diffs, maxOp |-> maxOp,
           pendingChanges |-> pendingChanges, actor |-> undefined, seq |-> 0]

\* A faulty diff of the root map: every key of the map is listed.
rootDiffAllKeys(opSet, touched) ==
  [objectId |-> ROOT_ID, type |-> "map",
   props |-> [k \in Keys |-> opSet.byObject[k]]]

\* The diff of the root map: every key an applied op touched, with its active
\* assignments after the batch.
rootDiff(opSet, touched) ==
  [objectId |-> ROOT_ID, type |-> "map",
   props |-> [k \in touched |-> opSet.byObject[k]]]

\* A faulty loop of apply: every change takes the path of a local change.
RECURSIVE applyLoopLocal(_, _, _, _)
applyLoopLocal(chs, acc, batch, request) ==
  IF batch = <<>> \/ acc.err # NoErr THEN acc
  ELSE applyLoopLocal(chs, addLocalChange(chs, acc, Head(batch)), Tail(batch), request)

RECURSIVE applyLoop(_, _, _, _)
applyLoop(chs, acc, batch, request) ==
  IF batch = <<>> \/ acc.err # NoErr THEN acc
  ELSE applyLoop(chs,
                 IF request.local
                 THEN addLocalChange(chs, acc, Head(batch))
                 ELSE addChange(chs, acc, Head(batch)),
                 Tail(batch), request)

\* A faulty apply: the diffs of the patch are read from the OpSet as it was
\* before the changes were applied.
applyReturnStaleDiffs(chs, state, acc, request, isIncremental) ==
  IF acc.err # NoErr THEN [state |-> state, patch |-> NoPatch, err |-> acc.err]
  ELSE [state |-> [state EXCEPT !.opSet = acc.opSet],
        patch |-> IF isIncremental
                  THEN makePatch(chs, [state EXCEPT !.opSet = acc.opSet],
                                 rootDiff(state.opSet, acc.touched), request, TRUE)
                  ELSE NoPatch,
        err |-> NoErr]

\* The [state, patch] apply returns for the accumulator its loop ends with.
applyReturn(chs, state, acc, request, isIncremental) ==
  IF acc.err # NoErr THEN [state |-> state, patch |-> NoPatch, err |-> acc.err]
  ELSE [state |-> [state EXCEPT !.opSet = acc.opSet],
        patch |-> IF isIncremental
                  THEN makePatch(chs, [state EXCEPT !.opSet = acc.opSet],
                                 rootDiff(acc.opSet, acc.touched), request, TRUE)
                  ELSE NoPatch,
        err |-> NoErr]

\* The implementation behind applyChanges, applyLocalChange and loadChanges.
apply(chs, state, batch, request, isIncremental) ==
  applyReturn(chs, state, applyLoop(chs, Acc(state.opSet), batch, request),
              request, isIncremental)

\* A faulty applyChanges / applyLocalChange: the new heads are added to the
\* heads of the old handle.
backendReturnKeepHeads(backend, r) ==
  IF r.err # NoErr
  THEN [backend |-> backend, patch |-> NoPatch, err |-> r.err, frozen |-> FALSE]
  ELSE [backend |-> [state |-> r.state,
                     heads |-> backend.heads \cup getHeadsOpSet(r.state.opSet)],
        patch |-> r.patch, err |-> NoErr, frozen |-> TRUE]

\* The [{state, heads}, patch] made of what apply returned; the old handle is
\* frozen.  A call that threw leaves the handle as it was.
backendReturn(backend, r) ==
  IF r.err # NoErr
  THEN [backend |-> backend, patch |-> NoPatch, err |-> r.err, frozen |-> FALSE]
  ELSE [backend |-> [state |-> r.state, heads |-> getHeadsOpSet(r.state.opSet)],
        patch |-> r.patch, err |-> NoErr, frozen |-> TRUE]

applyChanges(chs, backend, batch) ==
  backendReturn(backend, apply(chs, backend.state, batch, NoRequest, TRUE))

\* The [backend, patch, binaryChange] of applyLocalChange for the encoded change.
localReturn(chs2, binaryChange, r) ==
  [chs |-> chs2, backend |-> r.backend, patch |-> r.patch,
   hash |-> IF r.err = NoErr THEN binaryChange ELSE 0, err |-> r.err, frozen |-> r.frozen]

\* encodeChange, which gives the change its hash, then apply.
applyEncoded(chs2, backend, binaryChange, request) ==
  localReturn(chs2, binaryChange,
              backendReturn(backend,
                            apply(chs2, backend.state, <<binaryChange>>, request, TRUE)))

\* A faulty applyLocalChange: the request is encoded with the deps the
\* frontend gave it.
withoutLastHash(state, change) == change

\* The hash of the actor's previous change joins the deps of the request.
withLastHash(state, change) ==
  IF change.seq > 1
  THEN [change EXCEPT !.deps = {hashByActor(state, change.actor, change.seq - 2)} \cup @]
  ELSE change

encodeAndApply(chs, backend, change2) ==
  applyEncoded(encodeChange(chs, change2), backend, hashOf(chs, change2),
               [local |-> TRUE, actor |-> change2.actor, seq |-> change2.seq])

\* A faulty applyLocalChange: the seq of the request is not compared with
\* the number of changes applied for its actor.
applyLocalChangeUnchecked(chs, backend, change) ==
  IF change.seq > 1 /\ hashByActor(backend.state, change.actor, change.seq - 2) = 0
  THEN [chs |-> chs, backend |-> backend, patch |-> NoPatch, hash |-> 0,
        err |-> "Cannot find hash of localChange", frozen |-> FALSE]
  ELSE encodeAndApply(chs, backend, withLastHash(backend.state, change))

\* A change request of the local application.
applyLocalChange(chs, backend, change) ==
  IF change.seq <= numHashesByActor(backend.state, change.actor)
  THEN [chs |-> chs, backend |-> backend, patch |-> NoPatch, hash |-> 0,
        err |-> "Change request has already been applied", frozen |-> FALSE]
  ELSE IF change.seq > 1 /\ hashByActor(backend.state, change.actor, change.seq - 2) = 0
  THEN [chs |-> chs, backend |-> backend, patch |-> NoPatch, hash |-> 0,
        err |-> "Cannot find hash of localChange", frozen |-> FALSE]
  ELSE encodeAndApply(chs, backend, withLastHash(backend.state, change))

loadReturn(backend, r) ==
  IF r.err # NoErr
  THEN [backend |-> backend, err |-> r.err, frozen |-> FALSE]
  ELSE [backend |-> [state |-> r.state, heads |-> getHeadsOpSet(r.state.opSet)],
        err |-> NoErr, frozen |-> TRUE]

\* A faulty loadChanges: the changes are applied to an empty state.
loadChangesFresh(chs, backend, batch) ==
  loadReturn(backend, apply(chs, init.state, batch, NoRequest, FALSE))

loadChanges(chs, backend, batch) ==
  loadReturn(backend, apply(chs, backend.state, batch, NoRequest, FALSE))

getHeads(backend) == backend.heads

\* A faulty getAllChanges: the history, latest change first.
getAllChangesLatestFirst(backend) ==
  [i \in 1..Len(backend.state.opSet.history) |->
     backend.state.opSet.history[Len(backend.state.opSet.history) + 1 - i]]

\* OpSet.getMissingChanges with no haveDeps: the whole history, in the order
\* in which the changes were applied.
getAllChanges(backend) == backend.state.opSet.history

\* A faulty save: only the heads are written.
saveHeads(chs, backend) ==
  [i \in 1..Len(SelectSeq(getAllChanges(backend), LAMBDA h : h \in getHeads(backend))) |->
     chs[SelectSeq(getAllChanges(backend), LAMBDA h : h \in getHeads(backend))[i]]]

\* The state of the document serialised.
save(chs, backend) == encodeDocument(chs, getAllChanges(backend))

\* A backend initialised with the document contained in data.
load(chs, data) == loadChanges(chs, init, encodeAll(chs, decodeChanges(data)))

\* A faulty getChangeByHash: a parked change is found too.
getChangeByHashParked(backend, h) ==
  IF h \in hashesOf(backend.state.opSet) \cup Range(backend.state.opSet.queue)
  THEN h ELSE 0

getChangeByHash(backend, h) == getChangeByHashOpSet(backend.state.opSet, h)

\* A faulty getChanges: only the hashes of haveDeps themselves are left out.
getChangesShallow(chs, backend, haveDeps) ==
  IF ~(haveDeps \subseteq hashesOf(backend.state.opSet))
  THEN [err |-> "hash not found", changes |-> <<>>]
  ELSE [err |-> NoErr, changes |-> notSeen(backend.state.opSet.history, haveDeps)]

\* A faulty getChanges: a hash that is not applied is passed over.
getChangesLenient(chs, backend, haveDeps) ==
  getMissingChangesOpSet(chs, backend.state.opSet,
                         haveDeps \cap hashesOf(backend.state.opSet))

\* The changes newer than or concurrent to those of haveDeps.
getChanges(chs, backend, haveDeps) ==
  getMissingChangesOpSet(chs, backend.state.opSet, haveDeps)

\* A faulty getMissingDeps: the heads given are not looked at.
getMissingDepsNoHeads(chs, backend, heads) ==
  getMissingDepsOpSet(chs, backend.state.opSet, {})

getMissingDeps(chs, backend, heads) == getMissingDepsOpSet(chs, backend.state.opSet, heads)

\* The patch that builds the whole document from nothing.
getPatch(chs, backend) ==
  makePatch(chs, backend.state, rootDiff(backend.state.opSet, Keys), NoRequest, FALSE)

(***************************************************************************)
(* The Frontend contract (spec.md 3, 4.5): a document is the frontend's    *)
(* view (actor, seq, maxOp, deps, the conflict set of every key) and the   *)
(* backend handle.                                                         *)
(***************************************************************************)
FrontendInit(actorId) ==
  [actorId |-> actorId, seq |-> 0, maxOp |-> 0, deps |-> {},
   conflicts |-> [k \in Keys |-> {}], backendState |-> init]

FrontendApplyPatch(doc, patch, backendState) ==
  [doc EXCEPT
     !.seq = IF doc.actorId \in DOMAIN patch.clock THEN Max(@, patch.clock[doc.actorId]) ELSE @,
     !.maxOp = Max(@, patch.maxOp),
     !.deps = patch.deps,
     !.conflicts = [k \in Keys |->
                      IF k \in DOMAIN patch.diffs.props THEN patch.diffs.props[k] ELSE @[k]],
     !.backendState = backendState]

getActorId(doc) == doc.actorId

\* Every active assignment of the key: opId -> value.
getConflicts(doc, key) == doc.conflicts[key]

\* The visible value of a key: that of the greatest OpId; 0 when the key is absent.
getObjectField(doc, key) ==
  LET c == doc.conflicts[key] IN
  IF c = {} THEN 0
  ELSE (CHOOSE x \in c : \A y \in c : y.opId = x.opId \/ OpIdLess(y.opId, x.opId)).value

\* The user's edits of one change callback: each a set or a delete of a root key.
OpInputs ==
  [action : {"set"}, key : Keys, value : Values] \cup [action : {"del"}, key : Keys, value : {0}]

\* The ops the mutable proxy records for the edits: each op takes the next
\* counter and names in pred the assignments of its key visible at that point.
RECURSIVE recordOps(_, _, _, _, _, _)
recordOps(conflicts, input, i, startOp, actor, ops) ==
  IF i > Len(input) THEN ops
  ELSE LET in == input[i]
           opId == <<startOp + i - 1, actor>>
           op == [action |-> in.action, obj |-> ROOT_ID, key |-> in.key, value |-> in.value,
                  pred |-> {x.opId : x \in conflicts[in.key]}]
           conflicts2 == [conflicts EXCEPT ![in.key] =
                            IF in.action = "del" THEN {}
                            ELSE IF in.action = "inc" THEN incremented(@, op)
                            ELSE {[opId |-> opId, value |-> in.value]}]
       IN recordOps(conflicts2, input, i + 1, startOp, actor, Append(ops, op))

\* A delete or an increment is recorded only for a key that is present at
\* that point.
RECURSIVE validInput(_, _, _)
validInput(present, input, i) ==
  IF i > Len(input) THEN TRUE
  ELSE LET in == input[i] IN
       /\ in.action \in {"del", "inc"} => in.key \in present
       /\ validInput(IF in.action = "del" THEN present \ {in.key} ELSE present \cup {in.key},
                     input, i + 1)

\* The change request Frontend.change hands to the backend.
changeRequest(doc, input) ==
  [actor |-> doc.actorId, seq |-> doc.seq + 1, startOp |-> doc.maxOp + 1,
   deps |-> doc.deps,
   ops |-> recordOps(doc.conflicts, input, 1, doc.maxOp + 1, doc.actorId, <<>>)]

(***************************************************************************)
(* The Automerge API (src/src/automerge.ts).                               *)
(***************************************************************************)
\* A faulty applyPatch: the patch is taken for the whole document, so a key
\* it does not name is dropped.
applyPatchWhole(doc, patch, backendState) ==
  [FrontendApplyPatch(doc, patch, backendState) EXCEPT
     !.conflicts = [k \in Keys |->
                      IF k \in DOMAIN patch.diffs.props THEN patch.diffs.props[k] ELSE {}]]

applyPatch(doc, patch, backendState) == FrontendApplyPatch(doc, patch, backendState)

\* The document and the outcome of a call, for what the backend returned.
docReturn(doc, r) ==
  [err |-> r.err, patch |-> r.patch, frozen |-> r.frozen,
   doc |-> IF r.err = NoErr THEN applyPatch(doc, r.patch, r.backend) ELSE doc]

\* Automerge.change: Frontend.change records the ops, applies the request to
\* the backend and the patch to the document.
changeReturn(doc, r) ==
  [chs |-> r.chs, err |-> r.err, patch |-> r.patch, frozen |-> r.frozen, hash |-> r.hash,
   doc |-> IF r.err = NoErr THEN applyPatch(doc, r.patch, r.backend) ELSE doc]

AutomergeChange(chs, doc, input) ==
  changeReturn(doc, applyLocalChange(chs, doc.backendState, changeRequest(doc, input)))

AutomergeApplyChanges(chs, doc, batch) ==
  docReturn(doc, applyChanges(chs, doc.backendState, batch))

\* Backend.loadChanges followed by getPatch, as load and getHistory do.
withPatch(chs, r) ==
  [backend |-> r.backend, err |-> r.err, frozen |-> r.frozen,
   patch |-> IF r.err = NoErr THEN getPatch(chs, r.backend) ELSE NoPatch]

AutomergeLoadChanges(chs, doc, batch) ==
  docReturn(doc, withPatch(chs, loadChanges(chs, doc.backendState, batch)))

\* Automerge.getHistory: the changes of the document, each with the
\* snapshot loaded from the changes up to it.
getHistory(chs, doc) ==
  [i \in 1..Len(getAllChanges(doc.backendState)) |->
     [change |-> getAllChanges(doc.backendState)[i],
      snapshot |-> docReturn(FrontendInit(getActorId(doc)),
                             withPatch(chs, loadChanges(chs, init,
                                                        SubSeq(getAllChanges(doc.backendState), 1, i))))]]

\* Automerge.save.
AutomergeSave(chs, doc) == save(chs, doc.backendState)

\* Automerge.load: backend.load, then getPatch into a new document of the
\* actor given in the options.
AutomergeLoad(chs, data, actorId) ==
  docReturn(FrontendInit(actorId), withPatch(chs, load(chs, data)))

\* A faulty merge: the actor ids are not compared.
mergeAnyActor(chs, localDoc, remoteDoc) ==
  AutomergeApplyChanges(chs, localDoc, getAllChanges(remoteDoc.backendState))

\* A faulty merge: only the heads of the remote document are copied.
mergeHeadsOnly(chs, localDoc, remoteDoc) ==
  IF getActorId(localDoc) = getActorId(remoteDoc)
  THEN [err |-> "Cannot merge an actor with itself", patch |-> NoPatch, frozen |-> FALSE,
        doc |-> localDoc]
  ELSE AutomergeApplyChanges(chs, localDoc,
                             SelectSeq(getAllChanges(remoteDoc.backendState),
                                       LAMBDA h : h \in getHeads(remoteDoc.backendState)))

merge(chs, localDoc, remoteDoc) ==
  IF getActorId(localDoc) = getActorId(remoteDoc)
  THEN [err |-> "Cannot merge an actor with itself", patch |-> NoPatch, frozen |-> FALSE,
        doc |-> localDoc]
  ELSE AutomergeApplyChanges(chs, localDoc, getAllChanges(remoteDoc.backendState))

\* Automerge.getChanges(oldDoc, newDoc): what newDoc has that oldDoc has not.
AutomergeGetChanges(chs, oldDoc, newDoc) ==
  getChanges(chs, newDoc.backendState, getHeads(oldDoc.backendState))

(***************************************************************************)
(* DocSet and Connection (src/src/connection.js, the first Connection      *)
(* class), joined by the Channel of src/test/connection_new_test.js.  The  *)
(* Channel is a synchronous event emitter: a message is received inside    *)
(* the call that sends it, and a peer that is not listening misses it.     *)
(* The operators thread the world w = [docSet, conn, err] through the      *)
(* calls; chs is the universe of changes.                                  *)
(***************************************************************************)
ID == "123"
\* The documents of the tests: the shared one, and one that each peer adds.
DocIds == {ID, "abc", "qrs"}
OURS == "ours"
THEIRS == "theirs"
ERR_OLDCLOCK == "Cannot pass an old state object to a connection"
ERR_NOCLOCK == "This object cannot be used for network sync. Are you trying to sync a snapshot from the history?"

Peer(r) == IF r = "L" THEN "R" ELSE "L"

\* Map(): the clock that holds no actor.
EmptyClock == [a \in Actors |-> 0]

largestWins(x, y) == Max(x, y)

\* mergeWith(largestWins, clock)
clockUnion(c1, c2) == [a \in Actors |-> largestWins(c1[a], c2[a])]

lessOrEqual(c1, c2) == \A a \in Actors : c1[a] <= c2[a]

\* new Connection(docSet, sendMsg), not yet listening; heard records whether
\* the connection has received a message, closed whether close() was called.
NewConnection ==
  [listening |-> FALSE, registered |-> FALSE, heard |-> FALSE, closed |-> FALSE,
   ours |-> [d \in DocIds |-> <<>>], theirs |-> [d \in DocIds |-> <<>>]]

\* A replica without a connection.
NoConnection == NewConnection

\* The changes of a backend that a peer at the clock has not seen.
RECURSIVE missingFrom(_, _, _)
missingFrom(chs, history, c) ==
  IF history = <<>> THEN <<>>
  ELSE IF chs[Head(history)].seq > c[chs[Head(history)].actor]
  THEN <<Head(history)>> \o missingFrom(chs, Tail(history), c)
  ELSE missingFrom(chs, Tail(history), c)

getMissingChanges(chs, backend, c) == missingFrom(chs, getAllChanges(backend), c)

\* state(docId): the backend of the document, if the DocSet holds it.
hasDoc(w, r, docId) == w.docSet[r][docId] # <<>>

state(w, r, docId) == w.docSet[r][docId][1].backendState

\* A snapshot from the history: an object whose state holds no clock.
Snapshot(actorId) ==
  [FrontendInit(actorId) EXCEPT !.backendState.state.opSet = [snapshot |-> TRUE]]

\* Whether clock(docId) is defined.
hasClock(w, r, docId) == "history" \in DOMAIN state(w, r, docId).state.opSet

\* clock(docId): the clock of the document.
clock(w, r, docId) ==
  [a \in Actors |-> numHashesByActor(state(w, r, docId).state, a)]

\* clock(docId, OURS): Map() when none is recorded.
ourClock(w, r, docId) ==
  IF w.conn[r].ours[docId] = <<>> THEN EmptyClock ELSE w.conn[r].ours[docId][1]

\* clock(docId, THEIRS) is undefined when none is recorded.
hasTheirClock(w, r, docId) == w.conn[r].theirs[docId] # <<>>

theirClock(w, r, docId) == w.conn[r].theirs[docId][1]

mergedInto(old, c) == IF old = <<>> THEN <<c>> ELSE <<clockUnion(old[1], c)>>

\* A faulty updateClock: the clock is merged into the entry of every docId.
updateClockEveryDoc(w, r, which, docId, c) ==
  IF w.err # NoErr THEN w
  ELSE [w EXCEPT
          !.conn[r].ours = [d \in DocIds |-> IF OURS \in which THEN mergedInto(@[d], c) ELSE @[d]],
          !.conn[r].theirs = [d \in DocIds |-> IF THEIRS \in which THEN mergedInto(@[d], c) ELSE @[d]]]

updateClock(w, r, which, docId, c) ==
  IF w.err # NoErr THEN w
  ELSE [w EXCEPT
          !.conn[r].ours[docId] = IF OURS \in which THEN mergedInto(@, c) ELSE @,
          !.conn[r].theirs[docId] = IF THEIRS \in which THEN mergedInto(@, c) ELSE @]

\* updateClock(which, docId) with the clock of the document as it is by then.
updateToDoc(w, r, which, docId) ==
  IF w.err # NoErr THEN w ELSE updateClock(w, r, which, docId, clock(w, r, docId))

RECURSIVE receiveMsg(_, _, _, _)
RECURSIVE docChanged(_, _, _, _)
RECURSIVE maybeSendChanges(_, _, _, _)

\* No replica has sent a change on its connection.
NoneSent == [r \in Replicas |-> {}]

\* The changes a message carries, each with the docId it is sent for.
carried(msg) == {[docId |-> msg.docId, hash |-> h] : h \in Range(msg.changes)}

\* The record of a message handed to the send callback: the message, the
\* changes its sender has sent on this connection, and those of them that it
\* had sent before.
logged(w, r, msg) ==
  [w EXCEPT !.sent = Append(@, [from |-> r, msg |-> msg]),
            !.sentBy[r] = @ \cup carried(msg),
            !.again = @ \cup (carried(msg) \cap w.sentBy[r])]

\* What the runtime throws when deliveries nest without end.
ERR_STACK == "RangeError: Maximum call stack size exceeded"

\* The send callback, Channel.write and the peer's listener: the message is
\* handed to the peer's receiveMsg if the peer is listening, else it is lost.
\* A closed connection writes to the channel it was made with, which has no
\* listener left.  Every message handed to the send callback is appended to
\* w.sent.
sendMsg(chs, w, r, msg) ==
  IF w.err # NoErr THEN w
  ELSE IF w.depth >= MaxDepth THEN [w EXCEPT !.err = ERR_STACK]
  ELSE IF w.lose \/ w.conn[r].closed \/ ~w.conn[Peer(r)].listening
  THEN [logged(w, r, msg) EXCEPT !.lose = FALSE]
  ELSE [receiveMsg(chs,
                   [logged(w, r, msg) EXCEPT !.conn[Peer(r)].heard = TRUE, !.depth = @ + 1],
                   Peer(r), msg)
          EXCEPT !.depth = w.depth]

\* DocSet.setDoc: the document is stored and every registered handler is called.
setDoc(chs, w, r, docId, doc) ==
  IF w.err # NoErr THEN w
  ELSE IF w.conn[r].registered
  THEN docChanged(chs, [w EXCEPT !.docSet[r][docId] = <<doc>>], r, docId)
  ELSE [w EXCEPT !.docSet[r][docId] = <<doc>>]

\* The document DocSet.applyChanges stores for what Automerge.applyChanges returned.
appliedDoc(chs, w, r, docId, res) ==
  IF res.err # NoErr THEN [w EXCEPT !.err = res.err]
  ELSE setDoc(chs, w, r, docId, res.doc)

\* DocSet.applyChanges: to the document held, or to a new one.
docSetApplyChanges(chs, w, r, docId, batch) ==
  appliedDoc(chs, w, r, docId,
             AutomergeApplyChanges(chs,
                                   IF hasDoc(w, r, docId) THEN w.docSet[r][docId][1]
                                   ELSE FrontendInit(ActorOf(r)),
                                   batch))

\* A message with no changes is a request for changes.
requestChanges(chs, w, r, docId) ==
  sendMsg(chs, w, r,
          [docId |-> docId,
           clock |-> IF hasDoc(w, r, docId) THEN clock(w, r, docId) ELSE EmptyClock,
           changes |-> <<>>])

\* A faulty requestDoc: nothing is sent.
requestDocNone(chs, w, r, docId) == w

\* A message with a docId and an empty clock is a request for a document.
requestDoc(chs, w, r, docId) ==
  sendMsg(chs, w, r, [docId |-> docId, clock |-> EmptyClock, changes |-> <<>>])

sendChanges(chs, w, r, docId, batch) ==
  updateToDoc(sendMsg(chs, w, r,
                      [docId |-> docId, clock |-> clock(w, r, docId), changes |-> batch]),
              r, {OURS, THEIRS}, docId)

\* A faulty maybeSendChanges: every change of the document is sent each time.
maybeSendChangesAll(chs, w, r, docId) ==
  IF w.err # NoErr \/ ~hasTheirClock(w, r, docId) THEN w
  ELSE IF getMissingChanges(chs, state(w, r, docId), EmptyClock) # <<>>
  THEN sendChanges(chs, w, r, docId, getMissingChanges(chs, state(w, r, docId), EmptyClock))
  ELSE w

\* Send changes if we have more recent information than they do.
maybeSendChanges(chs, w, r, docId) ==
  IF w.err # NoErr \/ ~hasTheirClock(w, r, docId) THEN w
  ELSE IF getMissingChanges(chs, state(w, r, docId), theirClock(w, r, docId)) # <<>>
  THEN sendChanges(chs, w, r, docId,
                   getMissingChanges(chs, state(w, r, docId), theirClock(w, r, docId)))
  ELSE w

\* A faulty maybeRequestChanges: the clock is advertised every time.
maybeRequestChangesAlways(chs, w, r, docId) ==
  IF w.err # NoErr THEN w ELSE requestChanges(chs, w, r, docId)

\* If the document is newer than what we have advertised, request changes.
maybeRequestChanges(chs, w, r, docId) ==
  IF w.err # NoErr THEN w
  ELSE IF ~lessOrEqual(clock(w, r, docId), ourClock(w, r, docId))
  THEN requestChanges(chs, w, r, docId)
  ELSE w

\* A faulty docChanged: the document is not validated.
docChangedUnchecked(chs, w, r, docId) ==
  IF ~hasClock(w, r, docId) THEN w
  ELSE updateToDoc(maybeRequestChanges(chs, maybeSendChanges(chs, w, r, docId), r, docId),
                   r, {OURS}, docId)

\* A faulty docChanged: the clock of the document is recorded as ours
\* without the check that it has been advertised.
docChangedNoAdvert(chs, w, r, docId) ==
  IF ~hasClock(w, r, docId) THEN [w EXCEPT !.err = ERR_NOCLOCK]
  ELSE IF ~lessOrEqual(ourClock(w, r, docId), clock(w, r, docId))
  THEN [w EXCEPT !.err = ERR_OLDCLOCK]
  ELSE updateToDoc(maybeSendChanges(chs, w, r, docId), r, {OURS}, docId)

\* The callback the DocSet calls whenever a document is changed.
docChanged(chs, w, r, docId) ==
  IF ~hasClock(w, r, docId) THEN [w EXCEPT !.err = ERR_NOCLOCK]
  ELSE IF ~lessOrEqual(ourClock(w, r, docId), clock(w, r, docId))
  THEN [w EXCEPT !.err = ERR_OLDCLOCK]
  ELSE updateToDoc(maybeRequestChanges(chs, maybeSendChanges(chs, w, r, docId), r, docId),
                   r, {OURS}, docId)

\* A faulty receiveMsg: a message without changes gets no answer.
receivedNoAnswer(chs, w, r, msg) ==
  IF msg.changes # <<>> THEN docSetApplyChanges(chs, w, r, msg.docId, msg.changes)
  ELSE w

\* What receiveMsg does once it has recorded their clock.
received(chs, w, r, msg) ==
  IF msg.changes # <<>> THEN docSetApplyChanges(chs, w, r, msg.docId, msg.changes)
  ELSE IF hasDoc(w, r, msg.docId) THEN maybeSendChanges(chs, w, r, msg.docId)
  ELSE requestDoc(chs, w, r, msg.docId)

\* Called by the network stack whenever it receives a message from a peer.
receiveMsg(chs, w, r, msg) ==
  received(chs, updateClock(w, r, {THEIRS}, msg.docId, msg.clock), r, msg)

registerDoc(chs, w, r, docId) ==
  requestChanges(chs, updateToDoc(w, r, {OURS}, docId), r, docId)

\* open(): the initial state of the document is processed, then the
\* connection subscribes to the changes of the DocSet.
registered(w, r) == [w EXCEPT !.conn[r].registered = TRUE]

\* The docIds of the DocSet, in the order in which open() goes through them.
DocOrder == <<ID, "abc", "qrs">>

RECURSIVE registerDocs(_, _, _, _)
registerDocs(chs, w, r, i) ==
  IF i > Len(DocOrder) THEN w
  ELSE registerDocs(chs,
                    IF hasDoc(w, r, DocOrder[i]) THEN registerDoc(chs, w, r, DocOrder[i]) ELSE w,
                    r, i + 1)

open(chs, w, r) == registered(registerDocs(chs, w, r, 1), r)

\* makeConnection of the tests: a new connection listens on the channel and is opened.
makeConnection(chs, w, r) ==
  open(chs, [w EXCEPT !.conn[r] = [NewConnection EXCEPT !.listening = TRUE],
                      !.sentBy[r] = {}], r)

\* Function.prototype.bind: each call returns a new function, named here by
\* the method that made the call.
bind(method) == [fn |-> "docChanged", boundIn |-> method]

\* DocSet.unregisterHandler: the handler is removed if it is the function that
\* was registered, which for a connection is the one bound in open().
unregisterHandler(w, r, handler) ==
  IF handler = bind("open") THEN [w EXCEPT !.conn[r].registered = FALSE] ELSE w

\* Connection.close
close(w, r) == [unregisterHandler(w, r, bind("close")) EXCEPT !.conn[r].closed = TRUE]

\* networkOff of the tests: the listeners leave the channel, then both
\* connections are closed.
networkOff(w) ==
  close(close([w EXCEPT !.conn = [r \in Replicas |-> [w.conn[r] EXCEPT !.listening = FALSE]]],
              "L"), "R")

(***************************************************************************)
(* The state machine of the replicas' documents.                           *)
(***************************************************************************)
Doc(r) == docSet[r][ID][1]
Backend(r) == Doc(r).backendState
OpSetOf(r) == Backend(r).state.opSet
Applied(r) == hashesOf(OpSetOf(r))
Parked(r) == Range(OpSetOf(r).queue)

Batches == SeqsUpTo(DOMAIN changes, MaxBatch) \ {<<>>}
\* The change callbacks a replica runs: up to MaxOps edits, the i-th on KeyAt(i),
\* writing the actor's value; a delete is a callback of its own.
Inputs(r) ==
  {in \in SeqsUpTo(OpInputs, MaxOps) \ {<<>>} :
     \A i \in DOMAIN in :
       /\ in[i].key = KeyAt(i)
       /\ in[i].action = "set" => in[i].value = ValueOf(ActorOf(r))
       /\ in[i].action = "del" => Len(in) = 1}

\* How many of the changes parked on r the call that returned doc2 applied.
releasedBy(r, doc2) ==
  Cardinality(Parked(r) \cap hashesOf(doc2.backendState.state.opSet))

\* What a batch repeats: "twice" when it is one already applied change two
\* times over, "all" when every change of it is already applied, "some" when
\* one of them is already applied or occurs earlier in the batch, else "none".
dupsIn(r, batch) ==
  IF Len(batch) = 2 /\ batch[1] = batch[2] /\ batch[1] \in Applied(r) THEN "twice"
  ELSE IF Range(batch) \subseteq Applied(r) THEN "all"
  ELSE IF \E i \in DOMAIN batch :
            batch[i] \in Applied(r) \/ \E j \in 1..(i - 1) : batch[j] = batch[i]
  THEN "some"
  ELSE "none"

(***************************************************************************)
(* Nested objects.  An object is named by the OpId of the op that made it; *)
(* the root key conflict refers to objects, and each object has one key,   *)
(* sparrows.                                                               *)
(***************************************************************************)
\* The root object as the target of an op: the OpId 0@0.
ROOT_OBJECT == <<0, "0">>

ObjectIds == (1..MaxObjectOps) \X Actors

\* The state of one replica: the ops applied in their order, the objects the
\* root key refers to, the objects that exist, the active assignments of the
\* key of each, and the error raised.
NoObjectState ==
  [applied |-> <<>>, refs |-> {}, created |-> {}, inside |-> [o \in ObjectIds |-> {}],
   err |-> NoErr]

NoObjects == [made |-> {}, at |-> [r \in Replicas |-> NoObjectState]]

\* A faulty applyObjectOp: an object whose reference leaves the root key is
\* destroyed.
applyObjectOpDestroying(st, op) ==
  IF op.obj = ROOT_OBJECT
  THEN [st EXCEPT !.applied = Append(@, op.opId),
                  !.refs = (@ \ op.pred) \cup (IF op.action = "makeMap" THEN {op.opId} ELSE {}),
                  !.created = (@ \ op.pred) \cup (IF op.action = "makeMap" THEN {op.opId} ELSE {})]
  ELSE IF op.obj \notin st.created THEN [st EXCEPT !.err = "DanglingReference"]
  ELSE [st EXCEPT !.applied = Append(@, op.opId),
                  !.inside[op.obj] = (@ \ op.pred) \cup {op.opId}]

\* One op: at the root, the references named in pred leave the key and a
\* makeMap makes its object and refers to it; in an object, the assignment
\* replaces those named in pred.  An op on an object that does not exist is
\* a dangling reference.
applyObjectOp(st, op) ==
  IF op.obj = ROOT_OBJECT
  THEN [st EXCEPT !.applied = Append(@, op.opId),
                  !.refs = (@ \ op.pred) \cup (IF op.action = "makeMap" THEN {op.opId} ELSE {}),
                  !.created = @ \cup (IF op.action = "makeMap" THEN {op.opId} ELSE {})]
  ELSE IF op.obj \notin st.created THEN [st EXCEPT !.err = "DanglingReference"]
  ELSE [st EXCEPT !.applied = Append(@, op.opId),
                  !.inside[op.obj] = (@ \ op.pred) \cup {op.opId}]

(***************************************************************************)
(* Lists.  An element is named by the OpId of the insertion that made it   *)
(* (its elemId); an insertion names the element it follows, or the head of *)
(* the list.                                                               *)
(***************************************************************************)
HEAD == <<0, "_head">>

\* Where the element elemId is in elems: 0 for the head of the list.
indexOf(elems, elemId) ==
  IF elemId = HEAD THEN 0 ELSE CHOOSE i \in 1..Len(elems) : elems[i] = elemId

\* A faulty search: the new element goes right after its reference.
seekNone(elems, i, opId) == i

\* From index i on, pass the elements whose OpId is above the new one.
RECURSIVE seek(_, _, _)
seek(elems, i, opId) ==
  IF i < Len(elems) /\ OpIdLess(opId, elems[i + 1])
  THEN seek(elems, i + 1, opId)
  ELSE i

\* The elements after the insertion op is applied.
insert(elems, op) ==
  LET i == seek(elems, indexOf(elems, op.ref), op.opId)
  IN  SubSeq(elems, 1, i) \o <<op.opId>> \o SubSeq(elems, i + 1, Len(elems))

\* No insertion made, every list empty.
NoInserts ==
  [made |-> {}, at |-> [r \in Replicas |-> [applied |-> <<>>, elems |-> <<>>]]]

Init ==
  /\ changes = <<>>
  /\ docSet = [r \in Replicas |->
                [d \in DocIds |-> IF d = ID THEN <<FrontendInit(ActorOf(r))>> ELSE <<>>]]
  /\ conn = [r \in Replicas |-> NoConnection]
  /\ lists = NoInserts
  /\ objects = NoObjects
  /\ last = [op |-> "init", r |-> "L", err |-> NoErr, clock |-> NoPatch.clock,
             dups |-> "none", released |-> 0, msgs |-> 0, lost |-> {}, sentBy |-> NoneSent, again |-> {}]

\* Automerge.change on replica r.
Change(r, input) ==
  /\ Len(changes) < MaxChanges
  /\ validInput({k \in Keys : Doc(r).conflicts[k] # {}}, input, 1)
  /\ \E res \in {AutomergeChange(changes, Doc(r), input)} :
       /\ changes' = res.chs
       /\ UNCHANGED <<conn, lists, objects>>
       /\ docSet' = [docSet EXCEPT ![r][ID] = <<res.doc>>]
       /\ last' = [op |-> "change", r |-> r, err |-> res.err, clock |-> res.patch.clock,
                   dups |-> "none", released |-> releasedBy(r, res.doc), msgs |-> 0, lost |-> {}, sentBy |-> NoneSent, again |-> {}]

\* Automerge.applyChanges on replica r with any batch of existing changes.
ApplyChanges(r, batch) ==
  \E res \in {AutomergeApplyChanges(changes, Doc(r), batch)} :
    /\ Len(res.doc.backendState.state.opSet.queue) <= MaxQueue
    /\ docSet' = [docSet EXCEPT ![r][ID] = <<res.doc>>]
    /\ last' = [op |-> "applyChanges", r |-> r, err |-> res.err, clock |-> res.patch.clock,
                dups |-> dupsIn(r, batch), released |-> releasedBy(r, res.doc), msgs |-> 0, lost |-> {}, sentBy |-> NoneSent, again |-> {}]
    /\ UNCHANGED <<changes, conn, lists, objects>>

\* Backend.loadChanges on replica r, then getPatch into the document.
LoadChanges(r, batch) ==
  \E res \in {AutomergeLoadChanges(changes, Doc(r), batch)} :
    /\ Len(res.doc.backendState.state.opSet.queue) <= MaxQueue
    /\ docSet' = [docSet EXCEPT ![r][ID] = <<res.doc>>]
    /\ last' = [op |-> "loadChanges", r |-> r, err |-> res.err, clock |-> res.patch.clock,
                dups |-> "none", released |-> releasedBy(r, res.doc), msgs |-> 0, lost |-> {}, sentBy |-> NoneSent, again |-> {}]
    /\ UNCHANGED <<changes, conn, lists, objects>>

\* Automerge.merge(doc of r, doc of r2).
Merge(r, r2) ==
  /\ r # r2
  /\ \E res \in {merge(changes, Doc(r), Doc(r2))} :
       /\ docSet' = [docSet EXCEPT ![r][ID] = <<res.doc>>]
       /\ last' = [op |-> "merge", r |-> r, err |-> res.err, clock |-> res.patch.clock,
                   dups |-> dupsIn(r, getAllChanges(Backend(r2))),
                   released |-> releasedBy(r, res.doc), msgs |-> 0, lost |-> {}, sentBy |-> NoneSent, again |-> {}]
       /\ UNCHANGED <<changes, conn, lists, objects>>

Next ==
  \/ \E r \in Replicas : \E input \in Inputs(r) : Change(r, input)
  \/ \E r \in Replicas, batch \in Batches : ApplyChanges(r, batch)
  \/ \E r \in Replicas, batch \in Batches : LoadChanges(r, batch)
  \/ \E r \in Replicas, r2 \in Replicas : Merge(r, r2)

Spec == Init /\ [][Next]_vars

(***************************************************************************)
(* Three replicas: L and R edit and merge each other's documents, and an   *)
(* observer, which never edits, is handed their changes in any order.      *)
(***************************************************************************)
Observer == "C"

InitRelay ==
  /\ changes = <<>>
  /\ docSet = [r \in Replicas \cup {Observer} |->
                [d \in DocIds |-> IF d = ID THEN <<FrontendInit(ActorOf(r))>> ELSE <<>>]]
  /\ conn = [r \in Replicas |-> NoConnection]
  /\ lists = NoInserts
  /\ objects = NoObjects
  /\ last = [op |-> "init", r |-> "L", err |-> NoErr, clock |-> NoPatch.clock,
             dups |-> "none", released |-> 0, msgs |-> 0, lost |-> {}, sentBy |-> NoneSent, again |-> {}]

\* The editors of the relay assign one key in a change.
RelayInputs(r) == {in \in Inputs(r) : Len(in) = 1 /\ in[1].action = "set"}

\* What each actor adds to a counter.
DeltaOf(a) == IF a = "L" THEN 1 ELSE 2

\* The change callbacks on the counter of the key swallows: it is created
\* with the actor's value (every value of this key is a counter), incremented
\* by the actor's step, or deleted.
CounterInputs(r) ==
  {<<[action |-> "set", key |-> KeyAt(1), value |-> ValueOf(ActorOf(r))]>>,
   <<[action |-> "inc", key |-> KeyAt(1), value |-> DeltaOf(ActorOf(r))]>>,
   <<[action |-> "del", key |-> KeyAt(1), value |-> 0]>>}

NextCounter ==
  \/ \E r \in Replicas : \E input \in CounterInputs(r) : Change(r, input)
  \/ \E r \in Replicas, batch \in Batches : ApplyChanges(r, batch)
  \/ \E r \in Replicas, r2 \in Replicas : Merge(r, r2)

SpecCounter == Init /\ [][NextCounter]_vars

NextRelay ==
  \/ \E r \in Replicas : \E input \in RelayInputs(r) : Change(r, input)
  \/ \E r \in Replicas \cup {Observer}, r2 \in Replicas : Merge(r, r2)
  \/ \E batch \in Batches : ApplyChanges(Observer, batch)

SpecRelay == InitRelay /\ [][NextRelay]_vars

\* The editors assign or delete the key swallows, and the observer is handed
\* their changes in any order.
PatchInputs(r) == {in \in CounterInputs(r) : in[1].action # "inc"}

NextPatch ==
  \/ \E r \in Replicas : \E input \in PatchInputs(r) : Change(r, input)
  \/ \E r \in Replicas \cup {Observer}, r2 \in Replicas : Merge(r, r2)
  \/ \E batch \in Batches : ApplyChanges(Observer, batch)

SpecPatch == InitRelay /\ [][NextPatch]_vars

(***************************************************************************)
(* The state machine of two replicas joined by Connections, as the tests   *)
(* of src/test/connection_new_test.js drive them.  Every call is           *)
(* synchronous, so each action runs the call and all the deliveries nested *)
(* in it to completion: between two actions no message is in flight.       *)
(***************************************************************************)
World == [docSet |-> docSet, conn |-> conn, err |-> NoErr, sent |-> <<>>, lose |-> FALSE,
          depth |-> 0, sentBy |-> last.sentBy, again |-> {}]

\* Automerge.change on the document of r, then DocSet.setDoc.
EditDoc(r, input) ==
  /\ Len(changes) < MaxChanges
  /\ validInput({k \in Keys : Doc(r).conflicts[k] # {}}, input, 1)
  /\ \E res \in {AutomergeChange(changes, Doc(r), input)} :
       \E w \in {setDoc(res.chs, World, r, ID, res.doc)} :
         /\ changes' = res.chs
         /\ UNCHANGED <<lists, objects>>
         /\ docSet' = w.docSet
         /\ conn' = w.conn
         /\ last' = [op |-> "change", r |-> r, err |-> w.err, clock |-> res.patch.clock,
                     dups |-> "none", released |-> 0, msgs |-> Len(w.sent),
                     lost |-> last.lost, sentBy |-> w.sentBy, again |-> w.again]

\* DocSet.setDoc with the document as it is: the tests do this to trigger a sync.
SetDoc(r) ==
  \E w \in {setDoc(changes, World, r, ID, Doc(r))} :
    /\ docSet' = w.docSet
    /\ conn' = w.conn
    /\ last' = [op |-> "setDoc", r |-> r, err |-> w.err, clock |-> NoPatch.clock,
                dups |-> "none", released |-> 0, msgs |-> Len(w.sent),
                lost |-> last.lost, sentBy |-> w.sentBy, again |-> w.again]
    /\ UNCHANGED <<changes, lists, objects>>

\* Automerge.from: a new document of the actor of r with one change.
NewDoc(chs, r) ==
  AutomergeChange(chs, FrontendInit(ActorOf(r)),
                  <<[action |-> "set", key |-> KeyAt(1), value |-> ValueOf(ActorOf(r))]>>)

\* DocSet.setDoc of a new document under a docId that r does not hold.
AddDoc(r, d) ==
  /\ d # ID
  /\ ~hasDoc(World, r, d)
  /\ \E res \in {NewDoc(changes, r)} :
       /\ Len(res.chs) <= MaxChanges
       /\ \E w \in {setDoc(res.chs, World, r, d, res.doc)} :
            /\ changes' = res.chs
            /\ UNCHANGED <<lists, objects>>
            /\ docSet' = w.docSet
            /\ conn' = w.conn
            /\ last' = [op |-> "addDoc", r |-> r, err |-> w.err, clock |-> res.patch.clock,
                        dups |-> "none", released |-> 0, msgs |-> Len(w.sent),
                        lost |-> last.lost, sentBy |-> w.sentBy, again |-> w.again]

\* makeConnection for a replica that has no connection.
MakeConnection(r) ==
  /\ ~conn[r].listening
  /\ \E w \in {makeConnection(changes, World, r)} :
       /\ docSet' = w.docSet
       /\ conn' = w.conn
       /\ last' = [op |-> "makeConnection", r |-> r, err |-> w.err, clock |-> NoPatch.clock,
                   dups |-> "none", released |-> 0, msgs |-> Len(w.sent),
                   lost |-> last.lost, sentBy |-> w.sentBy, again |-> w.again]
       /\ UNCHANGED <<changes, lists, objects>>

\* networkOff: the listeners leave the channel and both connections are
\* closed.  (close() hands unregisterHandler a new bound function, so the old
\* handlers stay with the DocSet; their channel has no listener left, so what
\* they send is lost and they change nothing that is modelled here.)
NetworkOff ==
  /\ \E r \in Replicas : conn[r].listening
  /\ conn' = [r \in Replicas |-> NoConnection]
  /\ last' = [op |-> "networkOff", r |-> "L", err |-> NoErr, clock |-> NoPatch.clock,
              dups |-> "none", released |-> 0, msgs |-> 0, lost |-> {}, sentBy |-> NoneSent, again |-> {}]
  /\ UNCHANGED <<changes, docSet, lists, objects>>

NextConn ==
  \/ \E r \in Replicas : \E input \in Inputs(r) : EditDoc(r, input)
  \/ \E r \in Replicas : SetDoc(r)
  \/ \E r \in Replicas : MakeConnection(r)
  \/ NetworkOff

SpecConn == Init /\ [][NextConn]_vars

\* networkOff, keeping the closed connections: what they still do is visible.
Close ==
  /\ \A r \in Replicas : conn[r].listening
  /\ conn' = networkOff(World).conn
  /\ last' = [op |-> "close", r |-> "L", err |-> NoErr, clock |-> NoPatch.clock,
              dups |-> "none", released |-> 0, msgs |-> 0, lost |-> {}, sentBy |-> NoneSent, again |-> {}]
  /\ UNCHANGED <<changes, docSet, lists, objects>>

\* Edits and setDoc calls before and after the connections are closed.
NextClose ==
  \/ \E r \in Replicas : \E input \in Inputs(r) : EditDoc(r, input)
  \/ \E r \in Replicas : SetDoc(r)
  \/ \E r \in Replicas : MakeConnection(r)
  \/ Close

SpecClose == Init /\ [][NextClose]_vars

\* What is lost when the first message of a call is dropped: the changes it
\* carried that the peer has not applied.
lostOf(w, r) ==
  {[to |-> Peer(w.sent[1].from), hash |-> w.sent[1].msg.changes[i]] :
     i \in {j \in 1..Len(w.sent[1].msg.changes) :
              w.sent[1].msg.changes[j] \notin Applied(Peer(w.sent[1].from))}}

\* An edit of a connected replica whose first message, which carries
\* changes, is dropped by the transport.
LoseChange(r, input) ==
  /\ Len(changes) < MaxChanges
  /\ \A q \in Replicas : conn[q].listening /\ conn[q].registered
  /\ validInput({k \in Keys : Doc(r).conflicts[k] # {}}, input, 1)
  /\ \E res \in {AutomergeChange(changes, Doc(r), input)} :
       \E w \in {setDoc(res.chs, [World EXCEPT !.lose = TRUE], r, ID, res.doc)} :
         /\ Len(w.sent) >= 1
         /\ w.sent[1].msg.changes # <<>>
         /\ changes' = res.chs
         /\ UNCHANGED <<lists, objects>>
         /\ docSet' = w.docSet
         /\ conn' = w.conn
         /\ last' = [op |-> "changeLost", r |-> r, err |-> w.err, clock |-> res.patch.clock,
                     dups |-> "none", released |-> 0, msgs |-> Len(w.sent),
                     lost |-> last.lost \cup lostOf(w, r),
                     sentBy |-> w.sentBy, again |-> w.again]

\* The run goes on until a call exhausts the stack.
Running == last.err # ERR_STACK

\* One connection on each side, never closed, over a transport that may drop
\* a message that carries changes.
NextLossy ==
  \/ \E r \in Replicas : \E input \in RelayInputs(r) : Running /\ EditDoc(r, input)
  \/ \E r \in Replicas : \E input \in RelayInputs(r) : Running /\ LoseChange(r, input)
  \/ \E r \in Replicas : Running /\ SetDoc(r)
  \/ \E r \in Replicas : Running /\ MakeConnection(r)

SpecLossy == Init /\ [][NextLossy]_vars

\* The two replicas add documents under new docIds, while connected or not.
NextDocs ==
  \/ \E r \in Replicas, d \in DocIds : AddDoc(r, d)
  \/ \E r \in Replicas : MakeConnection(r)
  \/ NetworkOff

SpecDocs == Init /\ [][NextDocs]_vars

\* The network stack hands the connection of r a message without changes
\* about docId, as requestDoc writes it: { docId, clock: {} }.
ReceiveMsg(r, docId) ==
  /\ conn[r].listening
  /\ \E w \in {receiveMsg(changes, [World EXCEPT !.conn[r].heard = TRUE, !.depth = 1], r,
                            [docId |-> docId, clock |-> EmptyClock, changes |-> <<>>])} :
       /\ docSet' = w.docSet
       /\ conn' = w.conn
       /\ last' = [op |-> "receiveMsg", r |-> r, err |-> w.err, clock |-> NoPatch.clock,
                   dups |-> "none", released |-> 0, msgs |-> Len(w.sent),
                   lost |-> last.lost, sentBy |-> w.sentBy, again |-> w.again]
       /\ UNCHANGED <<changes, lists, objects>>

\* Documents under several docIds, and messages that reach a connection from
\* outside the calls modelled here; the run ends when a call exhausts the stack.
NextStray ==
  \/ \E r \in Replicas, d \in DocIds : Running /\ AddDoc(r, d)
  \/ \E r \in Replicas : Running /\ MakeConnection(r)
  \/ Running /\ NetworkOff
  \/ \E r \in Replicas, d \in DocIds : Running /\ ReceiveMsg(r, d)

SpecStray == Init /\ [][NextStray]_vars

(***************************************************************************)
(* The list of the document on two replicas: each inserts elements and     *)
(* applies the insertions of the other once it has what they depend on.    *)
(***************************************************************************)
\* The next counter of replica r: one above every OpId it has applied.
nextCounter(r) ==
  1 + Cardinality({c \in 1..MaxInserts :
                     \E x \in Range(lists.at[r].applied) : x[1] >= c})

\* Replica r inserts an element after ref.
InsertAfter(r, ref) ==
  /\ Cardinality(lists.made) < MaxInserts
  /\ ref \in {HEAD} \cup Range(lists.at[r].elems)
  /\ \E op \in {[opId |-> <<nextCounter(r), ActorOf(r)>>, ref |-> ref,
                  deps |-> Range(lists.at[r].applied)]} :
       lists' = [lists EXCEPT !.made = @ \cup {op},
                              !.at[r].applied = Append(@, op.opId),
                              !.at[r].elems = insert(@, op)]
  /\ UNCHANGED <<changes, docSet, conn, objects, last>>

\* Replica r applies an insertion of the other replica.
ApplyInsert(r, op) ==
  /\ op \in lists.made
  /\ op.opId \notin Range(lists.at[r].applied)
  /\ op.deps \subseteq Range(lists.at[r].applied)
  /\ lists' = [lists EXCEPT !.at[r].applied = Append(@, op.opId),
                            !.at[r].elems = insert(@, op)]
  /\ UNCHANGED <<changes, docSet, conn, objects, last>>

NextList ==
  \/ \E r \in Replicas : \E ref \in {HEAD} \cup Range(lists.at[r].elems) : InsertAfter(r, ref)
  \/ \E r \in Replicas : \E op \in lists.made : ApplyInsert(r, op)

SpecList == Init /\ [][NextList]_vars

(***************************************************************************)
(* Nested objects on two replicas: each makes objects under the root key,  *)
(* assigns the key of an object it can reach, deletes the root key, and    *)
(* applies the ops of the other once it has what they depend on.           *)
(***************************************************************************)
\* The op replica r makes next.
objectOp(r, action, obj, pred) ==
  [opId |-> <<1 + Cardinality({c \in 1..MaxObjectOps :
                                 \E x \in Range(objects.at[r].applied) : x[1] >= c}),
              ActorOf(r)>>,
   action |-> action, obj |-> obj, pred |-> pred,
   deps |-> Range(objects.at[r].applied)]

\* Replica r makes the op and applies it.
MakeObjectOp(r, action, obj, pred) ==
  /\ Cardinality(objects.made) < MaxObjectOps
  /\ objects.at[r].err = NoErr
  /\ \E op \in {objectOp(r, action, obj, pred)} :
       objects' = [objects EXCEPT !.made = @ \cup {op},
                                  !.at[r] = applyObjectOp(@, op)]
  /\ UNCHANGED <<changes, docSet, conn, lists, last>>

\* doc.conflict = {}: a new map replaces what the root key refers to.
MakeMap(r) == MakeObjectOp(r, "makeMap", ROOT_OBJECT, objects.at[r].refs)

\* delete doc.conflict
DeleteKey(r) ==
  /\ objects.at[r].refs # {}
  /\ MakeObjectOp(r, "del", ROOT_OBJECT, objects.at[r].refs)

\* An assignment in an object that the root key of r refers to.
SetInObject(r, o) ==
  /\ o \in objects.at[r].refs
  /\ MakeObjectOp(r, "set", o, objects.at[r].inside[o])

\* Replica r applies an op of the other replica.
ApplyObjectOp(r, op) ==
  /\ op \in objects.made
  /\ objects.at[r].err = NoErr
  /\ op.opId \notin Range(objects.at[r].applied)
  /\ op.deps \subseteq Range(objects.at[r].applied)
  /\ objects' = [objects EXCEPT !.at[r] = applyObjectOp(@, op)]
  /\ UNCHANGED <<changes, docSet, conn, lists, last>>

NextObjects ==
  \/ \E r \in Replicas : MakeMap(r)
  \/ \E r \in Replicas : DeleteKey(r)
  \/ \E r \in Replicas : \E o \in ObjectIds : SetInObject(r, o)
  \/ \E r \in Replicas : \E op \in objects.made : ApplyObjectOp(r, op)

SpecObjects == Init /\ [][NextObjects]_vars

\* Both connections are open, and each has received a message from the other.
Connected == \A r \in Replicas : conn[r].listening /\ conn[r].registered

Flowed == \A r \in Replicas : conn[r].heard

Converged ==
  /\ Applied("L") = Applied("R")
  /\ getHeads(Backend("L")) = getHeads(Backend("R"))
  /\ \A k \in Keys : getConflicts(Doc("L"), k) = getConflicts(Doc("R"), k)

\* C1 (convergence): whenever the two replicas are joined by open connections
\* over which messages have flowed both ways, and nothing is in flight (which
\* is so between any two actions), they hold the same applied changes, the
\* same heads and the same document.
C1_Convergence == (Connected /\ Flowed) => Converged

(***************************************************************************)
(* Properties of the replicas' documents (checked under Spec).             *)
(***************************************************************************)
Clock(r) == [a \in Actors |-> numHashesByActor(Backend(r).state, a)]

DepsOf(H) == UNION {changes[h].deps : h \in H}

\* The OpIds of the ops of change h: consecutive counters from its startOp.
OpIdsOf(h) == {<<changes[h].startOp + i - 1, changes[h].actor>> : i \in DOMAIN changes[h].ops}

\* The values change h assigns to key k, each under the OpId of its op.
Assignments(h, k) ==
  {[opId |-> <<changes[h].startOp + i - 1, changes[h].actor>>, value |-> changes[h].ops[i].value] :
     i \in {j \in DOMAIN changes[h].ops :
              changes[h].ops[j].key = k /\ changes[h].ops[j].action = "set"}}

\* Every change h depends on, directly or through other changes.
RECURSIVE Ancestors(_)
Ancestors(h) == changes[h].deps \cup UNION {Ancestors(d) : d \in changes[h].deps}

Concurrent(h1, h2) == h1 # h2 /\ h1 \notin Ancestors(h2) /\ h2 \notin Ancestors(h1)

\* An applied op of r names the OpId in its pred.
Superseded(r, opId) ==
  \E h \in Applied(r) : \E i \in DOMAIN changes[h].ops : opId \in changes[h].ops[i].pred

\* C2 (determinism): two replicas that have applied the same set of changes,
\* in whatever orders, have the same heads, the same per-actor clock, the same
\* conflict set for every key and the same visible value for every key.
C2_Determinism ==
  \A r1, r2 \in Replicas :
    Applied(r1) = Applied(r2) =>
      /\ getHeads(Backend(r1)) = getHeads(Backend(r2))
      /\ Clock(r1) = Clock(r2)
      /\ OpSetOf(r1).maxOp = OpSetOf(r2).maxOp
      /\ \A k \in Keys :
           /\ getConflicts(Doc(r1), k) = getConflicts(Doc(r2), k)
           /\ getObjectField(Doc(r1), k) = getObjectField(Doc(r2), k)

\* The two replicas hold the same changes, applied in different orders, and a
\* key has two concurrent assignments.
C2_Witness ==
  /\ Applied("L") = Applied("R")
  /\ getAllChanges(Backend("L")) # getAllChanges(Backend("R"))
  /\ \E k \in Keys : Cardinality(getConflicts(Doc("L"), k)) = 2

\* C3 (causal delivery): every change in a replica's history comes after all
\* of its deps; a parked change with a missing dep is not returned by
\* getChangeByHash and is not among the heads.
C3_CausalDelivery ==
  \A r \in Replicas :
    /\ \A i \in DOMAIN getAllChanges(Backend(r)) :
         changes[getAllChanges(Backend(r))[i]].deps
           \subseteq {getAllChanges(Backend(r))[j] : j \in 1..(i - 1)}
    /\ \A h \in Parked(r) :
         ~(changes[h].deps \subseteq Applied(r)) =>
           /\ getChangeByHash(Backend(r), h) = 0
           /\ h \notin getHeads(Backend(r))

\* applyChanges has just parked a change whose dep the replica has not applied.
C3_Witness ==
  /\ last.op = "applyChanges"
  /\ Applied(last.r) # {}
  /\ \E h \in Parked(last.r) : ~(changes[h].deps \subseteq Applied(last.r))

\* C4 (idempotence): an applyChanges (or merge) whose changes are all applied
\* already, also when the batch names one of them twice, raises no error and
\* leaves the heads, the clock, the history, the parked changes and the
\* conflict sets of the document as they were.
C4_Idempotence ==
  [][\A r \in Replicas :
       (/\ last'.op \in {"applyChanges", "merge"}
        /\ last'.r = r
        /\ last'.dups \in {"all", "twice"}) =>
         /\ last'.err = NoErr
         /\ getHeads(Backend(r))' = getHeads(Backend(r))
         /\ Clock(r)' = Clock(r)
         /\ getAllChanges(Backend(r))' = getAllChanges(Backend(r))
         /\ OpSetOf(r)' = OpSetOf(r)
         /\ Doc(r).conflicts' = Doc(r).conflicts]_vars

\* applyChanges was handed one already applied change twice in a batch, on a
\* replica whose document is not empty.
C4_Witness ==
  /\ last.op = "applyChanges"
  /\ last.dups = "twice"
  /\ last.err = NoErr
  /\ \E k \in Keys : getConflicts(Doc(last.r), k) # {}

\* C5 (parking): delivering a change raises no error; no parked change has all
\* its deps applied; and when the applied and parked changes of a replica are
\* closed under deps, nothing is parked.
C5_ParkedUntilReady ==
  /\ last.op \in {"applyChanges", "loadChanges", "merge"} => last.err = NoErr
  /\ \A r \in Replicas :
       /\ \A h \in Parked(r) : ~causallyReady(OpSetOf(r), changes[h])
       /\ DepsOf(Applied(r) \cup Parked(r)) \subseteq Applied(r) \cup Parked(r)
            => Parked(r) = {}

\* The last missing dep arrived: applyChanges applied two parked changes with it.
C5_Witness ==
  /\ last.op = "applyChanges"
  /\ last.released = 2
  /\ Parked(last.r) = {}
  /\ Cardinality(Applied(last.r)) = 3

\* C6 (monotonicity): no step removes a hash from what getAllChanges returns.
C6_Monotonic ==
  [][\A r \in Replicas :
       Range(getAllChanges(Backend(r))) \subseteq Range(getAllChanges(Backend(r))')]_vars

\* loadChanges has been called on a replica that had applied changes before.
C6_Witness ==
  /\ last.op = "loadChanges"
  /\ last.dups = "none"
  /\ Cardinality(Applied(last.r)) >= 2

\* The heads of r are the applied changes no applied change names in its deps.
HeadsAreMaximal ==
  \A r \in Replicas :
    getHeads(Backend(r)) =
      {h \in Applied(r) : \A g \in Applied(r) : h \notin changes[g].deps}

\* A step that applies exactly one change h puts h among the heads and removes
\* the heads h names in its deps, and no others.
HeadsStep ==
  \A r \in Replicas : \A h \in DOMAIN changes' :
    (h \notin Applied(r) /\ Applied(r)' = Applied(r) \cup {h}) =>
      getHeads(Backend(r))' = (getHeads(Backend(r)) \ changes'[h].deps) \cup {h}

\* C7 (heads): HeadsAreMaximal in every state, HeadsStep on every step.
C7_Heads == []HeadsAreMaximal /\ [][HeadsStep]_vars

\* A change that names two heads in its deps has replaced them both.
C7_Witness ==
  \E r \in Replicas : \E h \in getHeads(Backend(r)) :
    /\ Cardinality(changes[h].deps) = 2
    /\ getHeads(Backend(r)) = {h}

\* C8 (sequence numbers): the i-th applied change of an actor has seq i and is
\* that actor's, every applied change of the actor is among them, and the
\* clock of a patch (of getPatch, and of the last call on the replica) maps
\* the actor to their number.
C8_SeqContiguous ==
  \A r \in Replicas : \A a \in Actors :
    /\ \A i \in 1..numHashesByActor(Backend(r).state, a) :
         /\ changes[hashByActor(Backend(r).state, a, i - 1)].seq = i
         /\ changes[hashByActor(Backend(r).state, a, i - 1)].actor = a
    /\ {changes[h].seq : h \in {g \in Applied(r) : changes[g].actor = a}}
         = 1..numHashesByActor(Backend(r).state, a)
    /\ Cardinality({g \in Applied(r) : changes[g].actor = a})
         = numHashesByActor(Backend(r).state, a)
    /\ getPatch(changes, Backend(r)).clock[a] = numHashesByActor(Backend(r).state, a)
    /\ (last.op # "init" /\ last.r = r /\ last.err = NoErr) =>
         last.clock[a] = numHashesByActor(Backend(r).state, a)

\* applyChanges returned a patch whose clock holds 2 for an actor and 1 for
\* the other.
C8_Witness ==
  /\ last.op = "applyChanges"
  /\ last.err = NoErr
  /\ \E a, b \in Actors : last.clock[a] = 2 /\ last.clock[b] = 1

\* C9 (OpIds): two applied changes share no OpId; a later change of an actor
\* starts above every counter of its earlier changes; every active assignment
\* carries the OpId startOp + index of an op of an applied change; and no
\* applied counter exceeds the maxOp of the backend or of the document.
C9_OpIdsUnique ==
  \A r \in Replicas :
    /\ \A h1, h2 \in Applied(r) : h1 # h2 => OpIdsOf(h1) \cap OpIdsOf(h2) = {}
    /\ \A h1, h2 \in Applied(r) :
         (changes[h1].actor = changes[h2].actor /\ changes[h1].seq < changes[h2].seq) =>
           changes[h2].startOp > changes[h1].startOp + Len(changes[h1].ops) - 1
    /\ \A k \in Keys : \A x \in OpSetOf(r).byObject[k] :
         \E h \in Applied(r) : x \in Assignments(h, k)
    /\ \A h \in Applied(r) : \A id \in OpIdsOf(h) :
         id[1] <= OpSetOf(r).maxOp /\ id[1] <= Doc(r).maxOp

\* An actor's change of two ops is followed by another change of that actor.
C9_Witness ==
  \E r \in Replicas : \E h1, h2 \in Applied(r) :
    /\ changes[h1].actor = changes[h2].actor
    /\ changes[h1].seq < changes[h2].seq
    /\ Len(changes[h1].ops) = 2

\* x wins over y: the higher counter, or the greater actor id on equal counters.
Wins(x, y) ==
  \/ x.opId[1] > y.opId[1]
  \/ x.opId[1] = y.opId[1] /\ ActorRank(x.opId[2]) > ActorRank(y.opId[2])

\* C10 (conflicts): when a replica has applied two concurrent changes that
\* assign the same key, and no applied op overwrites either assignment, the
\* conflict set of the key holds both, and when it holds just these two the
\* visible value is that of the one with the greater OpId.
C10_ConcurrentAssign ==
  \A r \in Replicas : \A k \in Keys : \A h1, h2 \in Applied(r) :
    Concurrent(h1, h2) =>
      \A x \in Assignments(h1, k) : \A y \in Assignments(h2, k) :
        (~Superseded(r, x.opId) /\ ~Superseded(r, y.opId)) =>
          /\ {x, y} \subseteq getConflicts(Doc(r), k)
          /\ (getConflicts(Doc(r), k) = {x, y} /\ Wins(x, y)) =>
               getObjectField(Doc(r), k) = x.value

\* Both replicas have applied the two concurrent assignments of swallows and
\* both show the value of the greater actor, keeping the other as a conflict.
C10_Witness ==
  \A r \in Replicas :
    /\ getConflicts(Doc(r), "swallows")
         = {[opId |-> <<1, "L">>, value |-> 13], [opId |-> <<1, "R">>, value |-> 42]}
    /\ getObjectField(Doc(r), "swallows") = 42

(***************************************************************************)
(* Properties of the queries and of merge (checked under SpecRelay).       *)
(***************************************************************************)
\* The applied changes of r that are neither in H nor ancestors of a hash of H.
NewerThan(r, H) == Applied(r) \ (H \cup UNION {Ancestors(h) : h \in H})

\* What the replica r2 becomes when it applies what r1 has and r2's heads do not reach.
CaughtUp(r2, r1) ==
  AutomergeApplyChanges(changes, Doc(r2),
                        AutomergeGetChanges(changes, Doc(r2), Doc(r1)).changes)

\* C11 as stated: applying getChanges(heads of r2) of r1 to any replica r2
\* whose heads r1 has applied brings r2 to the heads of r1.
C11_AnyTarget ==
  \A r1, r2 \in DOMAIN docSet :
    getHeads(Backend(r2)) \subseteq Applied(r1) =>
      /\ CaughtUp(r2, r1).err = NoErr
      /\ getHeads(CaughtUp(r2, r1).doc.backendState) = getHeads(Backend(r1))

\* C11 (getChanges), amended: getChanges(haveDeps) returns, once each and in
\* history order, exactly the applied changes that are neither in haveDeps nor
\* ancestors of one of them; with no haveDeps it returns the whole history;
\* and applying its result to a replica whose heads are haveDeps and which has
\* no parked change brings that replica to the heads of the source.
C11_GetChanges ==
  \A r1 \in DOMAIN docSet :
    /\ getChanges(changes, Backend(r1), {})
         = [err |-> NoErr, changes |-> getAllChanges(Backend(r1))]
    /\ \A H \in SUBSET Applied(r1) :
         /\ getChanges(changes, Backend(r1), H).err = NoErr
         /\ Range(getChanges(changes, Backend(r1), H).changes) = NewerThan(r1, H)
         /\ getChanges(changes, Backend(r1), H).changes
              = SelectSeq(getAllChanges(Backend(r1)), LAMBDA h : h \in NewerThan(r1, H))
    /\ \A r2 \in DOMAIN docSet :
         (getHeads(Backend(r2)) \subseteq Applied(r1) /\ Parked(r2) = {}) =>
           /\ CaughtUp(r2, r1).err = NoErr
           /\ getHeads(CaughtUp(r2, r1).doc.backendState) = getHeads(Backend(r1))

\* A replica is behind another by a change, and getChanges for its heads
\* leaves out an ancestor of those heads.
C11_Witness ==
  \E r1, r2 \in DOMAIN docSet :
    /\ Parked(r2) = {}
    /\ getHeads(Backend(r2)) \subseteq Applied(r1)
    /\ getHeads(Backend(r2)) # getHeads(Backend(r1))
    /\ Cardinality(Applied(r1)) = 3
    /\ Len(AutomergeGetChanges(changes, Doc(r2), Doc(r1)).changes) = 1
    /\ Cardinality(getHeads(Backend(r2))) = 1

C13_MissingDeps ==
  \A r \in DOMAIN docSet : \A H \in SUBSET Hashes :
    /\ getMissingDeps(changes, Backend(r), H)
         = {d \in DepsOf(Parked(r)) \cup H : d \notin Applied(r) /\ d \notin Parked(r)}
    /\ (Parked(r) = {} /\ H \subseteq Applied(r)) => getMissingDeps(changes, Backend(r), H) = {}

\* A replica with a parked change is asked about a parked head and an
\* unknown one: the missing dep and the unknown head are reported.
C13_Witness ==
  \E r \in DOMAIN docSet : \E H \in SUBSET Hashes :
    /\ H \cap Parked(r) # {}
    /\ Cardinality(getMissingDeps(changes, Backend(r), H)) = 2
    /\ getMissingDeps(changes, Backend(r), H) \cap H # {}
    /\ getMissingDeps(changes, Backend(r), H) \ H # {}

\* What applyLocalChange returns when it throws: nothing is encoded, the
\* handle is the one passed in and is not frozen.
Rejected(r, e) ==
  [chs |-> changes, backend |-> Backend(r), patch |-> NoPatch, hash |-> 0,
   err |-> e, frozen |-> FALSE]

\* C14 (duplicate request): applyLocalChange with a request whose seq is not
\* greater than the number of changes applied for its actor (a request made
\* before, or a new one under an old seq) throws 'Change request has already
\* been applied' and leaves the applied changes, the heads and the handle as
\* they were.
C14_DuplicateRequest ==
  \A r \in DOMAIN docSet :
    /\ \A h \in DOMAIN changes :
         changes[h].seq <= numHashesByActor(Backend(r).state, changes[h].actor) =>
           applyLocalChange(changes, Backend(r), changes[h])
             = Rejected(r, "Change request has already been applied")
    /\ \A input \in Inputs(r) : \A n \in 1..Doc(r).seq :
         applyLocalChange(changes, Backend(r), [changeRequest(Doc(r), input) EXCEPT !.seq = n])
           = Rejected(r, "Change request has already been applied")

\* An actor has made two changes and both requests are made again.
C14_Witness ==
  \E r \in DOMAIN docSet : \E h1, h2 \in Applied(r) :
    /\ changes[h1].actor = getActorId(Doc(r)) /\ changes[h1].seq = 1
    /\ changes[h2].actor = getActorId(Doc(r)) /\ changes[h2].seq = 2
    /\ applyLocalChange(changes, Backend(r), changes[h1]).err
         = "Change request has already been applied"
    /\ applyLocalChange(changes, Backend(r), changes[h2]).err
         = "Change request has already been applied"

\* What merge returns when it throws for the document localDoc.
MergeRejected(localDoc) ==
  [err |-> "Cannot merge an actor with itself", patch |-> NoPatch, frozen |-> FALSE,
   doc |-> localDoc]

\* C15 (actor collision): merging a document with a document of the same
\* actor id (itself, or a new document made for that actor) raises an error
\* whichever of the two is the local one, and the local document, its backend
\* and its handle are what they were.
C15_ActorCollision ==
  \A r \in DOMAIN docSet :
    \A other \in {Doc(r), FrontendInit(getActorId(Doc(r)))} :
      /\ merge(changes, Doc(r), other) = MergeRejected(Doc(r))
      /\ merge(changes, other, Doc(r)) = MergeRejected(other)

\* A new document of an actor is merged with one of that actor that has changes.
C15_Witness ==
  \E r \in DOMAIN docSet :
    /\ Cardinality(Applied(r)) >= 2
    /\ merge(changes, FrontendInit(getActorId(Doc(r))), Doc(r)).err
         = "Cannot merge an actor with itself"

AppliedIn(doc) == hashesOf(doc.backendState.state.opSet)

ParkedIn(doc) == Range(doc.backendState.state.opSet.queue)

Merged(r1, r2) == merge(changes, Doc(r1), Doc(r2)).doc

SameContent(d1, d2) ==
  /\ getHeads(d1.backendState) = getHeads(d2.backendState)
  /\ AppliedIn(d1) = AppliedIn(d2)
  /\ \A k \in Keys :
       /\ getConflicts(d1, k) = getConflicts(d2, k)
       /\ getObjectField(d1, k) = getObjectField(d2, k)

\* C16 as stated: the applied changes of merge(local, remote) are exactly
\* those of local and those of remote, and merge(a, b) and merge(b, a) have
\* equal heads and content.
C16_AnyLocal ==
  \A r1, r2 \in DOMAIN docSet :
    r1 # r2 =>
      /\ AppliedIn(Merged(r1, r2)) = Applied(r1) \cup Applied(r2)
      /\ SameContent(Merged(r1, r2), Merged(r2, r1))

\* C16 (merge), amended: merge(local, remote) raises no error and its applied
\* changes are those of local, those of remote and the parked changes of local
\* that they make ready, so exactly the union when local has nothing parked;
\* merging the same remote again changes nothing; and merge(a, b) and
\* merge(b, a) have equal heads and content when neither has a parked change.
C16_Merge ==
  \A r1, r2 \in DOMAIN docSet :
    r1 # r2 =>
      /\ merge(changes, Doc(r1), Doc(r2)).err = NoErr
      /\ Applied(r1) \cup Applied(r2) \subseteq AppliedIn(Merged(r1, r2))
      /\ AppliedIn(Merged(r1, r2)) \subseteq Applied(r1) \cup Applied(r2) \cup Parked(r1)
      /\ \A h \in ParkedIn(Merged(r1, r2)) :
           ~(changes[h].deps \subseteq AppliedIn(Merged(r1, r2)))
      /\ Parked(r1) = {} => AppliedIn(Merged(r1, r2)) = Applied(r1) \cup Applied(r2)
      /\ merge(changes, Merged(r1, r2), Doc(r2)).err = NoErr
      /\ SameContent(merge(changes, Merged(r1, r2), Doc(r2)).doc, Merged(r1, r2))
      /\ ParkedIn(merge(changes, Merged(r1, r2), Doc(r2)).doc) = ParkedIn(Merged(r1, r2))
      /\ (Parked(r1) = {} /\ Parked(r2) = {}) => SameContent(Merged(r1, r2), Merged(r2, r1))

\* Two documents without parked changes, each with a change the other lacks,
\* both assigning swallows, are merged.
C16_Witness ==
  \E r1, r2 \in DOMAIN docSet :
    /\ r1 # r2
    /\ Parked(r1) = {} /\ Parked(r2) = {}
    /\ Applied(r1) \ Applied(r2) # {}
    /\ Applied(r2) \ Applied(r1) # {}
    /\ Cardinality(AppliedIn(Merged(r1, r2))) = 3
    /\ Cardinality(getConflicts(Merged(r1, r2), "swallows")) = 2

(***************************************************************************)
(* Properties of the Connections (checked under SpecConn and SpecDocs).    *)
(***************************************************************************)
\* C17 (open suffices): when the second of the two connections has been
\* opened, with no edit and no setDoc after it, each replica has applied the
\* changes of the other.
C17_OpenSuffices ==
  (last.op = "makeConnection" /\ Connected) => Applied("L") = Applied("R")

\* C18 (new documents): when a replica of a connected pair adds a document
\* under a docId that neither side holds, the step ends with no error and
\* with the peer holding a document of that docId with the same applied
\* changes, heads and content.
C18_NewDocument ==
  [][\A r \in Replicas : \A d \in DocIds :
       (/\ last'.op = "addDoc" /\ last'.r = r
        /\ docSet[r][d] = <<>> /\ docSet'[r][d] # <<>>
        /\ docSet[Peer(r)][d] = <<>>
        /\ Connected) =>
         /\ last'.err = NoErr
         /\ docSet'[Peer(r)][d] # <<>>
         /\ docSet'[r][d][1].backendState.state.opSet.queue = <<>>
         /\ docSet'[Peer(r)][d][1].backendState.state.opSet.queue = <<>>
         /\ SameContent(docSet'[r][d][1], docSet'[Peer(r)][d][1])]_vars

\* While connected L has added abc and R has added qrs: each holds both, with
\* the change of the one who added it.
C18_Witness ==
  /\ Connected
  /\ last.op = "addDoc"
  /\ last.msgs > 0
  /\ \A r \in Replicas : \A d \in {"abc", "qrs"} : docSet[r][d] # <<>>
  /\ \A r \in Replicas :
       /\ \A h \in AppliedIn(docSet[r]["abc"][1]) : changes[h].actor = "L"
       /\ \A h \in AppliedIn(docSet[r]["qrs"][1]) : changes[h].actor = "R"
       /\ AppliedIn(docSet[r]["abc"][1]) # {}
       /\ AppliedIn(docSet[r]["qrs"][1]) # {}

\* The clocks a message may carry.
Clocks == [Actors -> 0..MaxChanges]

\* receiveMsg of r for a message without changes, with what r sends recorded
\* in sent and not delivered.
ReceiveAlone(r, d, c) ==
  receiveMsg(changes, [World EXCEPT !.conn[Peer(r)].listening = FALSE], r,
             [docId |-> d, clock |-> c, changes |-> <<>>])

\* What the peer is known to have once the clock c of a message is recorded.
TheirsWith(r, d, c) ==
  IF conn[r].theirs[d] = <<>> THEN c ELSE clockUnion(conn[r].theirs[d][1], c)

Open(r) == conn[r].listening /\ conn[r].registered

\* The clock of the document of r is already advertised.
Advertised(r) == lessOrEqual(clock(World, r, ID), ourClock(World, r, ID))

\* r has nothing that a peer with the clock c lacks.
NothingFor(r, c) == getMissingChanges(changes, state(World, r, ID), c) = <<>>

\* C20 (quiescence): over the synchronous channel, where receiveMsg runs
\* inside sendMsg, every call ends after at most three messages; a DocSet
\* notification that follows another with no edit in between sends nothing;
\* and a replica whose clock is advertised and which has nothing the peer
\* lacks sends nothing on a DocSet notification nor on a message without
\* changes.
C20_Quiescence ==
  /\ last.msgs <= 3
  /\ \A r \in Replicas :
       Open(r) =>
         /\ docChanged(changes, [docChanged(changes, World, r, ID) EXCEPT !.sent = <<>>],
                       r, ID).sent = <<>>
         /\ (/\ Advertised(r)
             /\ hasTheirClock(World, r, ID) => NothingFor(r, theirClock(World, r, ID))) =>
               docChanged(changes, World, r, ID).sent = <<>>
         /\ \A c \in Clocks :
              (Advertised(r) /\ NothingFor(r, TheirsWith(r, ID, c))) =>
                receiveMsg(changes, World, r,
                           [docId |-> ID, clock |-> c, changes |-> <<>>]).sent = <<>>

\* An edit of a connected replica has taken three messages, after which both
\* sides hold the same changes, have advertised their clock and have nothing
\* the other lacks.
C20_Witness ==
  /\ Connected
  /\ last.op = "change"
  /\ last.msgs = 3
  /\ Applied("L") = Applied("R")
  /\ \A r \in Replicas :
       /\ Advertised(r)
       /\ hasTheirClock(World, r, ID)
       /\ NothingFor(r, theirClock(World, r, ID))
       /\ docChanged(changes, World, r, ID).sent = <<>>

(***************************************************************************)
(* Properties of the Connections over a transport that drops messages      *)
(* (checked under SpecLossy).                                              *)
(***************************************************************************)
\* C21 (message loss): once a later edit has been made and its messages
\* delivered on the same connection without error, every change that was
\* carried by a dropped message is applied at the peer it was sent to.
C21_LossTolerated ==
  (last.op = "change" /\ last.msgs >= 1 /\ last.err = NoErr) =>
    \A x \in last.lost : x.hash \in Applied(x.to)

\* What the connections do instead: a change carried by a dropped message is
\* never applied at the peer while the connections stay open.
LostForGood == \A x \in last.lost : x.hash \notin Applied(x.to)

Grown(o, n) == o = <<>> \/ (n # <<>> /\ lessOrEqual(o[1], n[1]))

\* The clock c is older than, or incomparable with, what r has recorded of
\* the peer for the document.
Stale(r, c) == hasTheirClock(World, r, ID) /\ ~lessOrEqual(theirClock(World, r, ID), c)

\* receiveMsg of r for a message without changes that carries the clock c,
\* the peer answering over the channel.
Receive(r, c) ==
  receiveMsg(changes, World, r, [docId |-> ID, clock |-> c, changes |-> <<>>])

\* C23 (stale clocks): a message whose clock is older than, or incomparable
\* with, the clock recorded for the peer raises no error, and the clocks
\* that both connections have recorded are afterwards entrywise at least
\* what they were, the peer's clock also at least the clock of the message.
C23_StaleClock ==
  \A r \in Replicas : \A c \in Clocks :
    (Open(r) /\ Stale(r, c)) =>
      /\ Receive(r, c).err = NoErr
      /\ lessOrEqual(c, Receive(r, c).conn[r].theirs[ID][1])
      /\ \A q \in Replicas :
           /\ Grown(conn[q].ours[ID], Receive(r, c).conn[q].ours[ID])
           /\ Grown(conn[q].theirs[ID], Receive(r, c).conn[q].theirs[ID])

\* What holds of the recorded clocks: while a connection lasts, no call
\* lowers an entry of its clocks, whether or not the call ends in an error.
ClocksOnlyGrow ==
  [][\A r \in Replicas : \A d \in DocIds :
       (last'.op # "networkOff" /\ ~(last'.op = "makeConnection" /\ last'.r = r)) =>
         /\ Grown(conn[r].ours[d], conn'[r].ours[d])
         /\ Grown(conn[r].theirs[d], conn'[r].theirs[d])]_vars

\* What holds of the errors: a message with a stale clock raises no error
\* other than the exhaustion of the stack by the deliveries it sets off.
StaleClockErrors ==
  \A r \in Replicas : \A c \in Clocks :
    (Open(r) /\ Stale(r, c)) => Receive(r, c).err \in {NoErr, ERR_STACK}

(***************************************************************************)
(* Properties of docChanged (checked under SpecConn).                      *)
(***************************************************************************)
\* The documents that may be handed to the DocSet of r: a snapshot, the
\* initial document, the document of r and the document of the peer.
Handed(r) == {Snapshot(ActorOf(r)), FrontendInit(ActorOf(r)), Doc(r), Doc(Peer(r))}

\* DocSet.setDoc of r with the document doc.
Notify(r, doc) == setDoc(changes, World, r, ID, doc)

\* The clock of doc is not at least the clock recorded as ours by r.
Old(r, doc) ==
  ~lessOrEqual(ourClock(World, r, ID),
               clock([World EXCEPT !.docSet[r][ID] = <<doc>>], r, ID))

\* C24 (old state objects): a notification of a document without a clock
\* raises the TypeError, and one of a document whose clock is not at least
\* the clock recorded as ours raises the RangeError 'Cannot pass an old
\* state object to a connection'; in both cases no message is sent and the
\* clocks of the connections are unchanged.  Any other document raises
\* neither.
C24_OldState ==
  \A r \in Replicas : \A doc \in Handed(r) :
    Open(r) =>
      IF doc = Snapshot(ActorOf(r))
      THEN /\ Notify(r, doc).err = ERR_NOCLOCK
           /\ Notify(r, doc).sent = <<>>
           /\ Notify(r, doc).conn = conn
      ELSE IF Old(r, doc)
      THEN /\ Notify(r, doc).err = ERR_OLDCLOCK
           /\ Notify(r, doc).sent = <<>>
           /\ Notify(r, doc).conn = conn
      ELSE Notify(r, doc).err \notin {ERR_OLDCLOCK, ERR_NOCLOCK}

\* A connected replica whose recorded clock is ahead of the initial document
\* and incomparable with the clock of the peer's document: both are refused.
C24_Witness ==
  \E r \in Replicas :
    /\ Open(r)
    /\ Old(r, FrontendInit(ActorOf(r)))
    /\ Old(r, Doc(Peer(r)))
    /\ ~lessOrEqual(clock(World, Peer(r), ID), ourClock(World, r, ID))
    /\ Notify(r, Doc(Peer(r))).err = ERR_OLDCLOCK
    /\ Notify(r, FrontendInit(ActorOf(r))).err = ERR_OLDCLOCK
    /\ Notify(r, Snapshot(ActorOf(r))).err = ERR_NOCLOCK

(***************************************************************************)
(* Properties of save and load (checked under Spec).                       *)
(***************************************************************************)
\* The document of r saved and loaded again.
Reloaded(r) == AutomergeLoad(changes, AutomergeSave(changes, Doc(r)), ActorOf(r))

InitialOf(opId) ==
  LET h == CHOOSE g \in DOMAIN changes : opId \in OpIdsOf(g)
  IN changes[h].ops[opId[1] - changes[h].startOp + 1].value

\* The increments applied on r that name the counter in their pred, each as
\* <<hash, index of the op>>.
IncsOn(r, opId) ==
  {p \in Applied(r) \X (1..MaxOps) :
     /\ p[2] <= Len(changes[p[1]].ops)
     /\ changes[p[1]].ops[p[2]].action = "inc"
     /\ opId \in changes[p[1]].ops[p[2]].pred}

RECURSIVE Total(_)
Total(S) ==
  IF S = {} THEN 0
  ELSE LET p == CHOOSE q \in S : TRUE
       IN changes[p[1]].ops[p[2]].value + Total(S \ {p})

\* C26 (counters): on every replica, in the backend and in the document,
\* the value of every counter is its initial value plus the sum of the
\* increments applied on that replica that target it, in whatever order the
\* changes were applied.
C26_Counter ==
  \A r \in DOMAIN docSet : \A k \in Keys :
    /\ getConflicts(Doc(r), k) = OpSetOf(r).byObject[k]
    /\ \A x \in OpSetOf(r).byObject[k] :
         x.value = InitialOf(x.opId) + Total(IncsOn(r, x.opId))

\* Both replicas hold a counter on which concurrent increments of both
\* actors are applied, in different orders.
C26_Witness ==
  \E k \in Keys : \E x \in OpSetOf("L").byObject[k] :
    /\ x \in OpSetOf("R").byObject[k]
    /\ \E p1, p2 \in IncsOn("L", x.opId) :
         /\ changes[p1[1]].actor = "L"
         /\ changes[p2[1]].actor = "R"
         /\ Concurrent(p1[1], p2[1])
    /\ x.value = InitialOf(x.opId) + DeltaOf("L") + DeltaOf("R")
    /\ getAllChanges(Backend("L")) # getAllChanges(Backend("R"))

(***************************************************************************)
(* Properties of the patch (checked under SpecPatch).                      *)
(***************************************************************************)
\* Backend.applyChanges of r with the batch.
Patched(r, batch) == applyChanges(changes, Backend(r), batch)

\* The keys whose active assignments differ on r after the call.
ChangedBy(r, res) ==
  {k \in Keys : res.backend.state.opSet.byObject[k] # OpSetOf(r).byObject[k]}

\* The keys of the ops of the changes that the call made r apply.
TargetedBy(r, res) ==
  UNION {touchedKeys(changes[h]) : h \in hashesOf(res.backend.state.opSet) \ Applied(r)}

\* Each key the patch lists has the assignments active after the call.
ListsActive(res) ==
  \A k \in DOMAIN res.patch.diffs.props :
    res.patch.diffs.props[k] = res.backend.state.opSet.byObject[k]

madeBy(elemId) == CHOOSE op \in lists.made : op.opId = elemId

\* x comes before y in the list of r.
Before(r, x, y) ==
  indexOf(lists.at[r].elems, x) < indexOf(lists.at[r].elems, y)

\* C28 (concurrent insertions): in every list the elements inserted after
\* the same reference stand in descending OpId order, and two replicas that
\* have applied the same insertions, in whatever order, have the same list.
C28_ListsConverge ==
  /\ \A r \in Replicas : \A x, y \in Range(lists.at[r].elems) :
       (madeBy(x).ref = madeBy(y).ref /\ OpIdLess(y, x)) => Before(r, x, y)
  /\ \A r \in Replicas :
       /\ Range(lists.at[r].elems) = Range(lists.at[r].applied)
       /\ Len(lists.at[r].elems) = Len(lists.at[r].applied)
  /\ \A r1, r2 \in Replicas :
       Range(lists.at[r1].applied) = Range(lists.at[r2].applied)
         => lists.at[r1].elems = lists.at[r2].elems

\* Both replicas have applied the same insertions in different orders, two
\* of them made concurrently after the same reference, and one of those
\* followed by an element of its own.
C28_Witness ==
  /\ Range(lists.at["L"].applied) = Range(lists.at["R"].applied)
  /\ lists.at["L"].applied # lists.at["R"].applied
  /\ \E x, y, z \in Range(lists.at["L"].elems) :
       /\ x # y
       /\ madeBy(x).ref = madeBy(y).ref
       /\ x \notin madeBy(y).deps /\ y \notin madeBy(x).deps
       /\ madeBy(z).ref = x

(***************************************************************************)
(* Properties of local changes (checked under Spec).                       *)
(***************************************************************************)
\* Changes of one actor stand in the history of r in the order of their seq.
InSeqOrder(r) ==
  \A i, j \in DOMAIN OpSetOf(r).history :
    (i < j /\ changes[OpSetOf(r).history[i]].actor = changes[OpSetOf(r).history[j]].actor)
      => changes[OpSetOf(r).history[i]].seq < changes[OpSetOf(r).history[j]].seq

\* Every encoded change after the first of its actor names in its deps the
\* change of the same actor with the seq before its own.
Chained ==
  \A h \in DOMAIN changes :
    changes[h].seq > 1 =>
      \E g \in changes[h].deps :
        /\ g \in DOMAIN changes
        /\ changes[g].actor = changes[h].actor
        /\ changes[g].seq = changes[h].seq - 1

\* The change that Automerge.change on r encoded in the step.
Encoded(r) == hashByActor(Backend(r).state, ActorOf(r), Doc(r).seq - 1)

\* Automerge.change on r succeeded in the step and it was not the first
\* change of r.
LaterChange(r) ==
  /\ last'.op = "change" /\ last'.r = r /\ last'.err = NoErr
  /\ Doc(r).seq >= 1

\* C29 (deps of a local change): the change that Automerge.change encodes
\* and applies for a request with seq > 1 has as deps the deps the frontend
\* held together with the hash of the same actor's change seq - 1; so the
\* changes of an actor form a chain, and every replica has them in its
\* history in seq order.
C29_LocalDeps ==
  /\ [](Chained /\ \A r \in Replicas : InSeqOrder(r))
  /\ [][\A r \in Replicas :
          LaterChange(r) =>
            /\ Encoded(r) # 0
            /\ Encoded(r)' \in DOMAIN changes' \ DOMAIN changes
            /\ changes'[Encoded(r)'].seq = Doc(r).seq + 1
            /\ changes'[Encoded(r)'].deps = Doc(r).deps \cup {Encoded(r)}]_vars

\* A second change of a replica that came after it had applied a change of
\* the other: its deps are that change and its own first change.
C29_Witness ==
  /\ last.op = "change" /\ last.err = NoErr
  /\ Doc(last.r).seq = 2
  /\ \E g \in changes[Encoded(last.r)].deps : changes[g].actor # ActorOf(last.r)
  /\ \E g \in changes[Encoded(last.r)].deps :
       changes[g].actor = ActorOf(last.r) /\ changes[g].seq = 1

(***************************************************************************)
(* Properties of the seq of a change request (checked under Spec).         *)
(***************************************************************************)
\* The seqs a request may carry.
Seqs == 0..(MaxChanges + 2)

\* A request of replica r to assign a key, carrying the seq q.
Request(r, q) ==
  [changeRequest(Doc(r), <<[action |-> "set", key |-> KeyAt(1),
                            value |-> ValueOf(ActorOf(r))]>>) EXCEPT !.seq = q]

\* applyLocalChange of r with that request.
Requested(r, q) == applyLocalChange(changes, Backend(r), Request(r, q))

\* The call threw with the message and left everything as it was.
Threw(res, r, msg) ==
  /\ res.err = msg
  /\ res.backend = Backend(r)
  /\ res.chs = changes
  /\ res.frozen = FALSE

\* C30 (seq of a local change): applyLocalChange applies a request only if
\* its seq is one more than the number of changes applied for its actor; a
\* seq further ahead throws because the hash of the previous local change
\* cannot be found, a seq not ahead throws because the request has already
\* been applied, and a call that throws leaves the backend as it was.
C30_NextSeqOnly ==
  \A r \in Replicas : \A q \in Seqs :
    LET n == numHashesByActor(Backend(r).state, ActorOf(r)) IN
    /\ q > n + 1 => Threw(Requested(r, q), r, "Cannot find hash of localChange")
    /\ q <= n => Threw(Requested(r, q), r, "Change request has already been applied")
    /\ q = n + 1 =>
         /\ Requested(r, q).err = NoErr
         /\ numHashesByActor(Requested(r, q).backend.state, ActorOf(r)) = q

\* A replica with two changes of its own applied, for which the seqs 4 and
\* 5 skip ahead, and one with none, for which 2 does.
C30_Witness ==
  /\ \E r \in Replicas :
       /\ numHashesByActor(Backend(r).state, ActorOf(r)) = 2
       /\ Requested(r, 4).err = "Cannot find hash of localChange"
       /\ Requested(r, 5).err = "Cannot find hash of localChange"
       /\ Requested(r, 3).err = NoErr
  /\ \E r \in Replicas :
       /\ numHashesByActor(Backend(r).state, ActorOf(r)) = 0
       /\ Applied(r) # {}
       /\ Requested(r, 2).err = "Cannot find hash of localChange"

(***************************************************************************)
(* Properties of a reused seq (checked under Spec).                        *)
(***************************************************************************)
\* The value the change does not assign first.
OtherValue(c) == IF c.ops[1].value = ValueOf("L") THEN ValueOf("R") ELSE ValueOf("L")

\* The changes another holder of the actor id of change h could have made
\* under the seq of h: the same deps, or those and a first change of another
\* actor, and another assignment.
Rivals(h) ==
  {[changes[h] EXCEPT
      !.deps = @ \cup extra,
      !.ops = <<[action |-> "set", obj |-> ROOT_ID, key |-> changes[h].ops[1].key,
                 value |-> OtherValue(changes[h]), pred |-> changes[h].ops[1].pred]>>] :
     extra \in {{}} \cup {{g} : g \in {x \in DOMAIN changes :
                                         /\ changes[x].actor # changes[h].actor
                                         /\ changes[x].deps = {}}}}

\* applyChanges of r with the rival c alone.
Reused(r, c) ==
  applyChanges(encodeChange(changes, c), Backend(r), <<hashOf(changes, c)>>)

\* The call threw and the backend is the one passed in.
RejectedDuplicate(res, r) ==
  /\ res.err = "DuplicateSeq"
  /\ res.backend = Backend(r)
  /\ res.frozen = FALSE

RequestWith(r, D) ==
  [changeRequest(Doc(r), <<[action |-> "set", key |-> KeyAt(1),
                            value |-> ValueOf(ActorOf(r))]>>) EXCEPT !.deps = D]

\* The patch of a local change names the request and has as deps the heads
\* other than the change itself: none if the change depended on every head.
LocalPatch(r, D, res) ==
  /\ res.err = NoErr
  /\ res.patch.actor = ActorOf(r)
  /\ res.patch.seq = Doc(r).seq + 1
  /\ res.hash \in getHeads(res.backend)
  /\ res.patch.deps = getHeads(res.backend) \ {res.hash}
  /\ getHeads(Backend(r)) \subseteq D \cup {hashByActor(Backend(r).state, ActorOf(r), Doc(r).seq - 1)}
       => res.patch.deps = {}

\* The patch of applyChanges names no request and lists every head.
RemotePatch(res) ==
  res.err = NoErr =>
    /\ res.patch.actor = undefined
    /\ res.patch.seq = 0
    /\ res.patch.deps = getHeads(res.backend)

\* C32 (actor, seq and deps of a patch): the patch of applyLocalChange
\* carries the actor and seq of the request and the heads less the hash of
\* the change just applied, which leaves no deps when the change depended on
\* all the heads before it; the patch of applyChanges carries no actor or
\* seq and all the heads.
C32_PatchDeps ==
  \A r \in Replicas :
    /\ \A D \in SUBSET Doc(r).deps :
         \A res \in {applyLocalChange(changes, Backend(r), RequestWith(r, D))} :
           LocalPatch(r, D, res)
    /\ \A batch \in Batches : \A res \in {Patched(r, batch)} : RemotePatch(res)

\* A replica with two heads: a request that knows both gets a patch without
\* deps and one that knows neither a patch with one; a batch of applyChanges
\* leaves it with two heads in the patch.
C32_Witness ==
  \E r \in Replicas :
    /\ Cardinality(getHeads(Backend(r))) = 2
    /\ applyLocalChange(changes, Backend(r), RequestWith(r, Doc(r).deps)).patch.deps = {}
    /\ Cardinality(applyLocalChange(changes, Backend(r), RequestWith(r, {})).patch.deps) = 1
    /\ \E batch \in Batches :
         /\ Patched(r, batch).err = NoErr
         /\ hashesOf(Patched(r, batch).backend.state.opSet) # Applied(r)
         /\ Cardinality(Patched(r, batch).patch.deps) = 2

(***************************************************************************)
(* Properties of pred (checked under Spec).                                *)
(***************************************************************************)
\* The changes replica r has not applied and whose deps it has.
Ready(r) == {h \in DOMAIN changes \ Applied(r) : changes[h].deps \subseteq Applied(r)}

\* The indices of the ops of c on key k.
OpsOn(c, k) == {i \in DOMAIN c.ops : c.ops[i].key = k}

\* What c leaves of the active set of key k: the assignments that no op of c
\* on k names in its pred, among those that were active and those c makes.
Surviving(active, c, k) ==
  {x \in active \cup {[opId |-> <<c.startOp + i - 1, c.actor>>, value |-> c.ops[i].value] :
                         i \in {j \in OpsOn(c, k) : c.ops[j].action # "del"}} :
     \A i \in OpsOn(c, k) : x.opId \notin c.ops[i].pred}

\* C33 (pred): applying a change (and no parked change with it) removes
\* from the active set of each key exactly the assignments its ops on that key name in pred and adds its own
\* assignments that are not dels; an assignment that is not named stays
\* active, so a set concurrent with a del of the same key survives it.
C33_PredOnly ==
  \A r \in Replicas : \A h \in Ready(r) :
    \A res \in {Patched(r, <<h>>)} :
      /\ res.err = NoErr
      /\ h \in hashesOf(res.backend.state.opSet)
      /\ hashesOf(res.backend.state.opSet) = Applied(r) \cup {h} =>
           \A k \in Keys :
             res.backend.state.opSet.byObject[k]
               = Surviving(OpSetOf(r).byObject[k], changes[h], k)

\* One replica holds two assignments of a key and applies a del that names
\* one of them: the other stays.  Another has applied a del of the key and
\* applies a set made without knowledge of the del: it becomes active.
C33_Witness ==
  /\ \E r \in Replicas : \E h \in Ready(r) : \E k \in Keys :
       /\ Cardinality(OpSetOf(r).byObject[k]) = 2
       /\ \E i \in OpsOn(changes[h], k) :
            /\ changes[h].ops[i].action = "del"
            /\ Cardinality(changes[h].ops[i].pred) = 1
       /\ hashesOf(Patched(r, <<h>>).backend.state.opSet) = Applied(r) \cup {h}
       /\ Cardinality(Patched(r, <<h>>).backend.state.opSet.byObject[k]) = 1
  /\ \E r \in Replicas : \E h \in Ready(r) : \E k \in Keys :
       /\ OpSetOf(r).byObject[k] = {}
       /\ \E g \in Applied(r) : \E i \in OpsOn(changes[g], k) :
            changes[g].ops[i].action = "del" /\ g \notin changes[h].deps
       /\ hashesOf(Patched(r, <<h>>).backend.state.opSet) = Applied(r) \cup {h}
       /\ Cardinality(Patched(r, <<h>>).backend.state.opSet.byObject[k]) = 1

(***************************************************************************)
(* Properties of nested objects (checked under SpecObjects).               *)
(***************************************************************************)
\* The op with the OpId.
objectOpOf(id) == CHOOSE op \in objects.made : op.opId = id

\* The ops replica r has applied.
ObjectOpsOf(r) == {objectOpOf(id) : id \in Range(objects.at[r].applied)}

\* In the order in which r applied them, the op x came before the op y.
AppliedBefore(r, x, y) ==
  \E i, j \in DOMAIN objects.at[r].applied :
    i < j /\ objects.at[r].applied[i] = x /\ objects.at[r].applied[j] = y

\* C34 (objects are never destroyed): no op raises an error; every object a
\* replica has applied the making of exists on it, whether or not the root
\* key still refers to it; and the key of each object holds exactly the
\* assignments applied to it that no applied assignment to it names in pred.
C34_NeverDestroyed ==
  \A r \in Replicas :
    /\ objects.at[r].err = NoErr
    /\ objects.at[r].created = {op.opId : op \in {x \in ObjectOpsOf(r) : x.action = "makeMap"}}
    /\ \A o \in objects.at[r].created :
         objects.at[r].inside[o]
           = {op.opId : op \in {x \in ObjectOpsOf(r) :
                                  /\ x.obj = o
                                  /\ \A y \in ObjectOpsOf(r) : y.obj = o => x.opId \notin y.pred}}

\* A replica applied an assignment in an object after the op that deleted
\* the reference to it, another after the op that overwrote it, and a
\* replica applied one in an object that is one of two the root key refers
\* to; each assignment is active in its object.
C34_Witness ==
  /\ \E r \in Replicas : \E x, y \in ObjectOpsOf(r) :
       /\ x.action = "del" /\ y.obj \in x.pred
       /\ AppliedBefore(r, x.opId, y.opId)
       /\ y.opId \in objects.at[r].inside[y.obj]
  /\ \E r \in Replicas : \E x, y \in ObjectOpsOf(r) :
       /\ x.action = "makeMap" /\ y.obj \in x.pred
       /\ AppliedBefore(r, x.opId, y.opId)
       /\ y.opId \in objects.at[r].inside[y.obj]
  /\ \E r \in Replicas : \E y \in ObjectOpsOf(r) :
       /\ Cardinality(objects.at[r].refs) = 2
       /\ y.obj \in objects.at[r].refs
       /\ y.opId \in objects.at[r].inside[y.obj]

(***************************************************************************)
(* Properties of the history (checked under Spec).                         *)
(***************************************************************************)
\* C35 (history): getAllChanges lists every applied change once, each after
\* all of its deps, and the snapshot getHistory loads from the first i
\* changes holds exactly these i changes applied, none parked.
C35_History ==
  \A r \in Replicas :
    \A all \in {getAllChanges(Backend(r))} : \A hist \in {getHistory(changes, Doc(r))} :
      /\ Range(all) = Applied(r)
      /\ Len(all) = Cardinality(Applied(r))
      /\ Len(hist) = Len(all)
      /\ \A i \in DOMAIN all : changes[all[i]].deps \subseteq {all[j] : j \in 1..(i - 1)}
      /\ \A i \in DOMAIN hist :
           /\ hist[i].change = all[i]
           /\ hist[i].snapshot.err = NoErr
           /\ AppliedIn(hist[i].snapshot.doc) = {all[j] : j \in 1..i}
           /\ ParkedIn(hist[i].snapshot.doc) = {}

\* A replica whose history of three changes holds changes of both actors,
\* one of them applied from the queue.
C35_Witness ==
  \E r \in Replicas :
    /\ Len(getHistory(changes, Doc(r))) = 3
    /\ \E h \in Applied(r) : changes[h].actor # ActorOf(r)
    /\ \E h \in Applied(r) : changes[h].actor = ActorOf(r)
    /\ last.r = r /\ last.released > 0

(***************************************************************************)
(* Properties of the clock recorded as ours (checked under SpecConn).      *)
(***************************************************************************)
\* The calls that can be made in the current state, each with the
\* connections before it and the outcome: a change callback of a replica
\* followed by setDoc, setDoc of a document as it is, and makeConnection.
Calls ==
  UNION {
    {[before |-> World, chs |-> AutomergeChange(changes, Doc(r), input).chs,
      after |-> setDoc(AutomergeChange(changes, Doc(r), input).chs, World, r, ID,
                       AutomergeChange(changes, Doc(r), input).doc)] :
       input \in {in \in Inputs(r) :
                    /\ Len(changes) < MaxChanges
                    /\ validInput({k \in Keys : Doc(r).conflicts[k] # {}}, in, 1)}}
    \cup {[before |-> World, chs |-> changes, after |-> Notify(r, Doc(r))]}
    \cup {[before |-> [World EXCEPT !.conn[r] = NewConnection], chs |-> changes,
            after |-> makeConnection(changes, World, r)] : x \in {y \in {r} : ~conn[y].listening}}
    : r \in Replicas}

\* The clocks replica q put into the messages it sent for docId in the call.
SentClocks(w, q, docId) ==
  {w.sent[i].msg.clock :
     i \in {j \in DOMAIN w.sent : w.sent[j].from = q /\ w.sent[j].msg.docId = docId}}

\* The entrywise maximum of the clock c and the clocks of S.
Sup(c, S) ==
  [a \in Actors |-> CHOOSE n \in {c[a]} \cup {x[a] : x \in S} :
                       \A m \in {c[a]} \cup {x[a] : x \in S} : m <= n]

\* C36 (the clock recorded as ours): over any call, the clock a connection
\* records as ours for a docId becomes the entrywise maximum of what it was
\* and the clocks the connection put into messages for that docId during
\* the call, so it never advances without a message that carries the
\* advance; and it never exceeds the clock of the document.
C36_OursAdvertised ==
  \A call \in Calls : \A q \in Replicas : \A d \in DocIds :
    call.after.err = NoErr =>
      /\ ourClock(call.after, q, d)
           = Sup(ourClock(call.before, q, d), SentClocks(call.after, q, d))
      /\ IF hasDoc(call.after, q, d)
         THEN lessOrEqual(ourClock(call.after, q, d), clock(call.after, q, d))
         ELSE ourClock(call.after, q, d) = EmptyClock

\* A call in which a replica's document advances twice, by its own change
\* and by the changes the peer sends back for it, and the clock recorded as
\* ours ends at the clock of the document.
C36_Witness ==
  \E call \in Calls : \E q \in Replicas :
    /\ call.after.err = NoErr
    /\ Cardinality(SentClocks(call.after, q, ID)) >= 2
    /\ ourClock(call.after, q, ID) # ourClock(call.before, q, ID)
    /\ ourClock(call.after, q, ID) = clock(call.after, q, ID)
    /\ \E a \in Actors : clock(call.after, q, ID)[a] > clock(call.before, q, ID)[a] + 1

\* C37: after close() a connection does not react to its DocSet: a setDoc on
\* the DocSet makes the closed connection send no message and leaves the
\* clocks it records as they were.
Closed(r) == conn[r].closed

C37_ClosedIsSilent ==
  [][\A r \in Replicas :
       (Closed(r) /\ last'.op \in {"change", "setDoc"} /\ last'.r = r)
         => /\ last'.msgs = 0
            /\ conn'[r].ours = conn[r].ours
            /\ conn'[r].theirs = conn[r].theirs]_vars

(***************************************************************************)
(* Properties of the messages of one call (checked under SpecConn).        *)
(***************************************************************************)
\* The messages of the call that were handed to q before its j-th message
\* was sent: those its peer sent about the same docId while q was listening.
HeardBefore(call, j) ==
  {i \in 1..(j - 1) :
     /\ call.after.sent[i].from = Peer(call.after.sent[j].from)
     /\ call.after.sent[i].msg.docId = call.after.sent[j].msg.docId
     /\ call.after.conn[call.after.sent[j].from].listening}

\* The clock covers the change.
Covers(chs, c, x) == chs[x.hash].seq <= c[chs[x.hash].actor]

\* C38 (nothing is sent back): a message a replica sends carries no change
\* that its peer has sent to it over this connection, in this call or in an
\* earlier one, and no change that is covered by a clock the peer advertised
\* in a message the replica had received when it sent the message.
C38_NotSentBack ==
  \A call \in Calls : \A j \in DOMAIN call.after.sent :
    \A q \in {call.after.sent[j].from} : \A h \in carried(call.after.sent[j].msg) :
      /\ conn[q].listening => h \notin call.before.sentBy[Peer(q)]
      /\ \A i \in HeardBefore(call, j) :
           /\ h \notin carried(call.after.sent[i].msg)
           /\ ~Covers(call.chs, call.after.sent[i].msg.clock, h)

\* A call in which a replica is handed changes of its peer, applies them and
\* then sends changes of its own to the peer.
C38_Witness ==
  \E call \in Calls : \E j \in DOMAIN call.after.sent :
    /\ call.after.err = NoErr
    /\ carried(call.after.sent[j].msg) # {}
    /\ \E i \in HeardBefore(call, j) :
         /\ carried(call.after.sent[i].msg) # {}
         /\ Range(call.after.sent[i].msg.changes)
              \subseteq AppliedIn(call.after.docSet[call.after.sent[j].from][ID][1])

(***************************************************************************)
(* Properties of messages about unknown documents (checked under SpecStray).*)
(***************************************************************************)
\* No DocSet holds a document under the docId.
Unheld(d) == \A r \in Replicas : ~hasDoc(World, r, d)

DocCalls ==
  UNION {
    {[docId |-> d, before |-> World,
      after |-> setDoc(NewDoc(changes, r).chs, World, r, d, NewDoc(changes, r).doc)] :
       x \in {y \in {r} : d # ID /\ ~hasDoc(World, y, d) /\ Len(changes) < MaxChanges}}
    \cup {[docId |-> d, before |-> World,
            after |-> setDoc(changes, World, r, d, docSet[r][d][1])] :
             x \in {y \in {r} : hasDoc(World, y, d)}}
    \cup {[docId |-> d, before |-> World,
            after |-> receiveMsg(changes, [World EXCEPT !.conn[r].heard = TRUE, !.depth = 1], r,
                                 [docId |-> d, clock |-> EmptyClock, changes |-> <<>>])] :
             x \in {y \in {r} : conn[y].listening}}
    : r \in Replicas, d \in DocIds}

\* C40 (documents are synced independently): a call that handles a message
\* or a DocSet notification for one docId leaves, on both replicas, the
\* clocks recorded as ours and theirs and the stored document of every other
\* docId as they were, and every message sent in the call carries the docId
\* of the call.
C40_Independent ==
  \A call \in DocCalls :
    /\ \A q \in Replicas : \A d \in DocIds \ {call.docId} :
         /\ call.after.conn[q].ours[d] = call.before.conn[q].ours[d]
         /\ call.after.conn[q].theirs[d] = call.before.conn[q].theirs[d]
         /\ call.after.docSet[q][d] = call.before.docSet[q][d]
    /\ \A j \in DOMAIN call.after.sent : call.after.sent[j].msg.docId = call.docId

\* A call about one docId that makes both replicas send, hands the peer the
\* document and moves the clocks of the docId on both sides, while a
\* document under another docId is held and has clocks recorded.
C40_Witness ==
  \E call \in DocCalls :
    /\ call.after.err = NoErr
    /\ {call.after.sent[j].from : j \in DOMAIN call.after.sent} = Replicas
    /\ \A q \in Replicas :
         /\ hasDoc(call.after, q, call.docId)
         /\ call.after.conn[q].ours[call.docId] # call.before.conn[q].ours[call.docId]
         /\ call.after.conn[q].theirs[call.docId] # call.before.conn[q].theirs[call.docId]
    /\ \E q \in Replicas : ~hasDoc(call.before, q, call.docId)
    /\ \E d \in DocIds \ {call.docId} : \E q \in Replicas :
         /\ hasDoc(call.before, q, d)
         /\ call.before.conn[q].ours[d] # <<>>
         /\ call.before.conn[q].theirs[d] # <<>>

====
